---- MODULE Spec2Model ----
(***************************************************************************)
(* PSX ledger: the AI-call wrapper (fetchGeminiResponse), the price        *)
(* refresh and the two-phase portfolio analysis, as state machines.        *)
(*                                                                         *)
(* A response text is a sequence of lexemes.  Each lexeme stands for a run *)
(* of characters of the real text: "fence" is one code-fence marker (three backquotes), "json"  *)
(* the word json, "null" the JSON literal, "x" and "id" words, " " white   *)
(* space, and the five JSON punctuation characters stand for themselves.   *)
(***************************************************************************)
EXTENDS Integers, Sequences, FiniteSets, TLC

LB    == "{"
RB    == "}"
COLON == ":"
COMMA == ","
QUOTE == "\""
NUL   == "null"
SP    == " "
\* FENCE is one code-fence marker: three backquote characters.
FENCE == "fence"
JSONW == "json"

Tokens == {LB, RB, COLON, COMMA, QUOTE, NUL, SP, FENCE, JSONW, "x", "id"}

(***************************************************************************)
(* Bounds of the model.                                                    *)
(***************************************************************************)
MaxTextLen == 3

----------------------------------------------------------------------------
(* String helpers of the JavaScript runtime, on lexeme sequences.          *)

\* s.substring(a, b) for 0-based a, b: clamps to [0, len], swaps when a > b.
Clamp(n, len) == IF n < 0 THEN 0 ELSE IF n > len THEN len ELSE n

Substring(s, a, b) ==
  LET ca == Clamp(a, Len(s))
      cb == Clamp(b, Len(s))
      lo == IF ca <= cb THEN ca ELSE cb
      hi == IF ca <= cb THEN cb ELSE ca
  IN  SubSeq(s, lo + 1, hi)

\* s.indexOf(c): 0-based index of the first c, -1 when absent.
IndexOf(s, c) ==
  IF \E i \in 1..Len(s) : s[i] = c
  THEN (CHOOSE i \in 1..Len(s) : s[i] = c /\ \A j \in 1..(i-1) : s[j] # c) - 1
  ELSE -1

\* s.lastIndexOf(c): 0-based index of the last c, -1 when absent.
LastIndexOf(s, c) ==
  IF \E i \in 1..Len(s) : s[i] = c
  THEN (CHOOSE i \in 1..Len(s) : s[i] = c /\ \A j \in (i+1)..Len(s) : s[j] # c) - 1
  ELSE -1

\* s.trim(): drops leading and trailing white space.
Trim(s) ==
  IF \A i \in 1..Len(s) : s[i] = SP THEN <<>>
  ELSE LET f == CHOOSE i \in 1..Len(s) : s[i] # SP /\ \A j \in 1..(i-1) : s[j] = SP
           l == CHOOSE i \in 1..Len(s) : s[i] # SP /\ \A j \in (i+1)..Len(s) : s[j] = SP
       IN  SubSeq(s, f, l)

\* s.replace(/<fence>json/g, ""): one left-to-right pass, matches do not overlap
\* and the result is not rescanned.
RECURSIVE ReplaceFenceJson(_)
ReplaceFenceJson(s) ==
  IF s = <<>> THEN <<>>
  ELSE IF Len(s) >= 2 /\ s[1] = FENCE /\ s[2] = JSONW
       THEN ReplaceFenceJson(SubSeq(s, 3, Len(s)))
       ELSE <<s[1]>> \o ReplaceFenceJson(Tail(s))

\* s.replace(/<fence>/g, "")
ReplaceFence(s) == SelectSeq(s, LAMBDA c : c # FENCE)

\* CleanText with the cut one character short: substring(firstBrace, lastBrace).
CleanText_ShortCut(respText) ==
  LET t0 == IF respText = <<>> THEN <<LB, RB>> ELSE respText
      t1 == Trim(ReplaceFence(ReplaceFenceJson(t0)))
      firstBrace == IndexOf(t1, LB)
      lastBrace  == LastIndexOf(t1, RB)
  IN  IF firstBrace # -1 /\ lastBrace # -1
      THEN Substring(t1, firstBrace, lastBrace)
      ELSE t1

\* Lines 49-59: default for an empty response, fence clean-up, trim and the
\* cut from the first '{' to the last '}'.
CleanText(respText) ==
  LET t0 == IF respText = <<>> THEN <<LB, RB>> ELSE respText
      t1 == Trim(ReplaceFence(ReplaceFenceJson(t0)))
      firstBrace == IndexOf(t1, LB)
      lastBrace  == LastIndexOf(t1, RB)
  IN  IF firstBrace # -1 /\ lastBrace # -1
      THEN Substring(t1, firstBrace, lastBrace + 1)
      ELSE t1

----------------------------------------------------------------------------
(* JSON.parse on lexeme sequences.  A value is null, a string (its         *)
(* content lexemes) or an object (a map from key contents to values).      *)

EmptyMap == [k \in {} |-> 0]
JNull    == [t |-> "null", s |-> <<>>, m |-> EmptyMap]
JStr(c)  == [t |-> "str",  s |-> c,    m |-> EmptyMap]
JObj(f)  == [t |-> "obj",  s |-> <<>>, m |-> f]

\* { ...f, [k]: v }: a later key replaces an earlier one.
MapPut(f, k, v) == [x \in (DOMAIN f) \cup {k} |-> IF x = k THEN v ELSE f[x]]

\* { ...f, ...g }
MapMerge(f, g) == [x \in (DOMAIN f) \cup (DOMAIN g) |-> IF x \in DOMAIN g THEN g[x] ELSE f[x]]

PFail == [ok |-> FALSE, v |-> JNull, n |-> 0]
POk(val, next) == [ok |-> TRUE, v |-> val, n |-> next]

RECURSIVE SkipWs(_, _)
SkipWs(s, i) == IF i <= Len(s) /\ s[i] = SP THEN SkipWs(s, i + 1) ELSE i

\* A string starting at s[i] = QUOTE: content up to the next QUOTE.
ParseString(s, i) ==
  IF i > Len(s) \/ s[i] # QUOTE THEN PFail
  ELSE IF \E j \in (i+1)..Len(s) : s[j] = QUOTE
       THEN LET j == CHOOSE j \in (i+1)..Len(s) :
                       s[j] = QUOTE /\ \A k \in (i+1)..(j-1) : s[k] # QUOTE
            IN  POk(JStr(SubSeq(s, i + 1, j - 1)), j + 1)
       ELSE PFail

RECURSIVE ParseValue(_, _)
RECURSIVE ParseMembers(_, _, _)

\* Members after '{' or ',': string ':' value, then ',' or '}'.
ParseMembers(s, i, acc) ==
  LET k == ParseString(s, SkipWs(s, i))
  IN  IF ~k.ok THEN PFail
      ELSE LET c == SkipWs(s, k.n)
           IN  IF c > Len(s) \/ s[c] # COLON THEN PFail
               ELSE LET val == ParseValue(s, SkipWs(s, c + 1))
                    IN  IF ~val.ok THEN PFail
                        ELSE LET e    == SkipWs(s, val.n)
                                 acc2 == MapPut(acc, k.v.s, val.v)
                             IN  IF e > Len(s) THEN PFail
                                 ELSE IF s[e] = RB THEN POk(JObj(acc2), e + 1)
                                 ELSE IF s[e] = COMMA THEN ParseMembers(s, e + 1, acc2)
                                 ELSE PFail

ParseValue(s, i) ==
  IF i > Len(s) THEN PFail
  ELSE IF s[i] = NUL THEN POk(JNull, i + 1)
  ELSE IF s[i] = QUOTE THEN ParseString(s, i)
  ELSE IF s[i] = LB
       THEN LET j == SkipWs(s, i + 1)
            IN  IF j <= Len(s) /\ s[j] = RB THEN POk(JObj(EmptyMap), j + 1)
                ELSE ParseMembers(s, i + 1, EmptyMap)
  ELSE PFail

\* JSON.parse(text): one value surrounded by optional white space.
JsonParse(s) ==
  LET r == ParseValue(s, SkipWs(s, 1))
  IN  IF r.ok /\ SkipWs(s, r.n) = Len(s) + 1 THEN [ok |-> TRUE, v |-> r.v]
      ELSE [ok |-> FALSE, v |-> JNull]


\* Lines 49-72 of fetchGeminiResponse: what one response text parses to.
ResponseData(respText) == JsonParse(CleanText(respText))

----------------------------------------------------------------------------
(* Errors.  An error carries its HTTP status (0: none) and the set of the  *)
(* marker substrings that its message contains.                            *)

MkError(k, st, mk) == [kind |-> k, status |-> st, marks |-> mk]

NoError         == MkError("none", 0, {})
ApiKeyError     == MkError("API Key not found", 0, {})
InvalidJson     == MkError("Invalid JSON format received from AI", 0, {})
RetriesError    == MkError("Gemini API request failed after multiple retries", 0, {})

\* What a rejected generateContent call can raise.
RemoteErrors ==
  { MkError("remote", 429, {}),
    MkError("remote", 500, {"429"}),
    MkError("remote", 0,   {"quota"}),
    MkError("remote", 403, {"RESOURCE_EXHAUSTED"}),
    MkError("remote", 500, {}) }

\* Lines 77-80.
isRateLimit(error) ==
  \/ error.status = 429
  \/ "429" \in error.marks
  \/ "quota" \in error.marks
  \/ "RESOURCE_EXHAUSTED" \in error.marks

\* The outcome of one generateContent call: a response text or a rejection.
\* A response also carries its grounding chunks (the uris of those that have a
\* web part) and, for a price query, the array that its JSON holds under
\* "stocks" (the lexemes of the text do not spell that array out).
MkResponse(txt, chunks, stocks) ==
  [kind |-> "text", text |-> txt, err |-> NoError, chunks |-> chunks, stocks |-> stocks]
TextOutcome(txt) == MkResponse(txt, <<>>, <<>>)
ErrOutcome(e) ==
  [kind |-> "error", text |-> <<>>, err |-> e, chunks |-> <<>>, stocks |-> <<>>]

----------------------------------------------------------------------------
(* fetchGeminiResponse as a record: pc is where the invocation stands,     *)
(* calls counts the generateContent calls issued, waits lists the backoff  *)
(* delays slept (ms), log lists the outcomes of the finished calls.        *)

maxAttempts == 3
BackoffMs   == 3000

FetchIdle ==
  [pc |-> "idle", attempts |-> 0, calls |-> 0, waits |-> <<>>, log |-> <<>>,
   data |-> JNull, response |-> TextOutcome(<<>>), error |-> NoError]

\* Line 38 and line 96: the loop head issues the next call, or falls out.
LoopHead(w) ==
  IF w.attempts < maxAttempts
  THEN [w EXCEPT !.pc = "calling", !.calls = @ + 1]
  ELSE [w EXCEPT !.pc = "raised", !.error = RetriesError]

\* FetchStart with the client created lazily: the key is not looked at.
FetchStart_NoKeyCheck(key) == LoopHead(FetchIdle)

\* Lines 8-12 and 20-22: getAiClient throws before the loop when the key is
\* absent; otherwise the first call is issued.
FetchStart(key) ==
  IF ~key THEN [FetchIdle EXCEPT !.pc = "raised", !.error = ApiKeyError]
  ELSE LoopHead(FetchIdle)

\* FetchCatch that also backs off after the last attempt (<= for <).
FetchCatch_WaitAfterLast(w, error) ==
  LET attempts == w.attempts + 1
      w1 == [w EXCEPT !.attempts = attempts]
  IN  IF isRateLimit(error) /\ attempts <= maxAttempts
      THEN [w1 EXCEPT !.pc = "waiting", !.waits = Append(@, BackoffMs * attempts)]
      ELSE IF attempts = maxAttempts
           THEN [w1 EXCEPT !.pc = "raised", !.error = error]
           ELSE LoopHead(w1)

\* Lines 73-94: the catch block of one failed attempt.
FetchCatch(w, error) ==
  LET attempts == w.attempts + 1
      w1 == [w EXCEPT !.attempts = attempts]
  IN  IF isRateLimit(error) /\ attempts < maxAttempts
      THEN [w1 EXCEPT !.pc = "waiting", !.waits = Append(@, BackoffMs * attempts)]
      ELSE IF attempts = maxAttempts
           THEN [w1 EXCEPT !.pc = "raised", !.error = error]
           ELSE LoopHead(w1)

\* FetchRespond whose parse failure loops without reaching the catch block,
\* so that it does not consume an attempt.
FetchRespond_ParseNotCounted(w, out) ==
  LET w1 == [w EXCEPT !.log = Append(@, out)]
      parsed == ResponseData(out.text)
  IN  IF out.kind = "error" THEN FetchCatch(w1, out.err)
      ELSE IF parsed.ok THEN [w1 EXCEPT !.pc = "returned", !.data = parsed.v, !.response = out]
      ELSE LoopHead(w1)

\* FetchRespond that swallows a parse failure and returns the empty object.
FetchRespond_ParseSwallowed(w, out) ==
  LET w1 == [w EXCEPT !.log = Append(@, out)]
      parsed == ResponseData(out.text)
  IN  IF out.kind = "error" THEN FetchCatch(w1, out.err)
      ELSE [w1 EXCEPT !.pc = "returned", !.response = out,
                      !.data = IF parsed.ok THEN parsed.v ELSE JObj(EmptyMap)]

\* Lines 40-72: the call settles with outcome out.
FetchRespond(w, out) ==
  LET w1 == [w EXCEPT !.log = Append(@, out)]
      parsed == ResponseData(out.text)
  IN  IF out.kind = "error" THEN FetchCatch(w1, out.err)
      ELSE IF parsed.ok THEN [w1 EXCEPT !.pc = "returned", !.data = parsed.v, !.response = out]
      ELSE FetchCatch(w1, InvalidJson)

\* Lines 85-86: the backoff timer fires and the loop continues.
FetchWaitDone(w) == LoopHead(w)

FetchDone(w) == w.pc \in {"returned", "raised"}

\* The invocation without the record of its past outcomes and waits, which
\* the callers of the ledger and of the analysis never look at.
Lean(w) == [w EXCEPT !.log = <<>>, !.waits = <<>>]

----------------------------------------------------------------------------
VARIABLES apiKey, simFetch, isSimulating, simulationResult, respText, expect,
          now, portfolio, liquidCash, isRefreshing, refreshes, timers,
          analysisHistory, viewingAnalysisId, isAnalyzing, analysisError, run,
          selectedStock, sheet, replaced, darkMode, strategy, storage,
          analysis, report, idealAllocation, rebalanceInflow, suggestions

simVars      == <<simFetch, isSimulating, simulationResult>>
parseVars    == <<respText, expect>>
ledgerVars   == <<portfolio, isRefreshing, refreshes, timers>>
analysisVars == <<analysisHistory, viewingAnalysisId, isAnalyzing, analysisError, run>>
\* PortfolioView: the position the transaction modal was opened on, the rows
\* of the file last uploaded, and the ids of the positions an import replaced.
bookVars     == <<selectedStock, sheet, replaced>>
\* The theme and the strategy of App.
prefVars     == <<darkMode, strategy>>
\* The analysis handed to the report and its outcome; AdvisorView: the ideal
\* allocation of the analysis shown, the inflow typed and the memo
\* rebalancingData as last computed.
viewVars     == <<analysis, report, idealAllocation, rebalanceInflow, suggestions>>
appVars      == <<now, liquidCash, ledgerVars, analysisVars, bookVars, prefVars, viewVars,
                 storage>>
vars         == <<apiKey, simVars, parseVars, appVars>>


----------------------------------------------------------------------------
(* Inputs.                                                                 *)

\* Every text of at most n lexemes.
TextsUpTo(n) == UNION {[1..k -> Tokens] : k \in 0..n}

\* The response texts the remote service returns in the wrapper runs.
ResponseTexts ==
  { <<>>,                                              \* empty response
    <<SP>>,                                            \* white space only
    <<"x">>,                                           \* prose, no braces
    <<NUL>>,                                           \* the literal null
    <<LB, RB>>,                                        \* {}
    <<LB, QUOTE, "x", QUOTE, COLON, RB>>,              \* {"x":}
    <<"x", SP, FENCE, JSONW, LB, QUOTE, "x", QUOTE, COLON, NUL, RB, FENCE, SP, "x">>,
    <<LB, QUOTE, "id", QUOTE, COLON, QUOTE, "x", QUOTE, RB>> }

Outcomes ==
  {TextOutcome(t) : t \in ResponseTexts} \cup {ErrOutcome(e) : e \in RemoteErrors}

\* Well-formed JSON values with the text that denotes each.
Denote(txt, val) == [tok |-> txt, val |-> val]

StringContents ==
  { <<>>, <<"x">>, <<SP>>, <<RB>>, <<LB, COMMA>>, <<FENCE>>, <<"x", FENCE, JSONW>> }

LeafValues ==
  {Denote(<<NUL>>, JNull)}
  \cup {Denote(<<QUOTE>> \o c \o <<QUOTE>>, JStr(c)) : c \in StringContents}
  \cup {Denote(<<LB, SP, RB>>, JObj(EmptyMap))}

MemberKeys == { <<>>, <<"x">>, <<"id">> }

Members ==
  { [key |-> k, tok |-> <<QUOTE>> \o k \o <<QUOTE, COLON>> \o l.tok, val |-> l.val] :
      k \in MemberKeys, l \in LeafValues }

\* Objects of zero, one and two members; a repeated key keeps the later value.
WellFormedObjects ==
  {Denote(<<LB, RB>>, JObj(EmptyMap))}
  \cup {Denote(<<LB>> \o a.tok \o <<RB>>, JObj(MapPut(EmptyMap, a.key, a.val))) : a \in Members}
  \cup {Denote(<<LB>> \o a.tok \o <<COMMA, SP>> \o b.tok \o <<SP, RB>>,
               JObj(MapPut(MapPut(EmptyMap, a.key, a.val), b.key, b.val))) :
          a \in Members, b \in Members}
  \cup {Denote(<<LB, QUOTE, "x", QUOTE, COLON>> \o a.tok \o <<RB>>,
               JObj(MapPut(EmptyMap, <<"x">>, a.val))) :
          a \in {Denote(<<LB>> \o b.tok \o <<RB>>, JObj(MapPut(EmptyMap, b.key, b.val))) :
                   b \in Members}}

\* Prose has no brace; fences may carry the json tag.
LeadingProse  == { <<>>, <<"x", SP>>, <<QUOTE, "x", COLON, SP>> }
OpenFences    == { <<>>, <<FENCE, SP>>, <<FENCE, JSONW, SP>> }
CloseFences   == { <<>>, <<SP, FENCE>> }
TrailingProse == { <<>>, <<SP, "x", COMMA>> }

HasFence(txt) == \E i \in 1..Len(txt) : txt[i] = FENCE

NoExpect == [wrapped |-> FALSE, val |-> JNull, fenced |-> FALSE]

\* A text of the wrapped shape, with the value of its object.
WrappedInputs ==
  { [text   |-> p \o f \o o.tok \o g \o q,
     expect |-> [wrapped |-> TRUE, val |-> o.val, fenced |-> HasFence(o.tok)]] :
      p \in LeadingProse, f \in OpenFences, o \in WellFormedObjects,
      g \in CloseFences, q \in TrailingProse }

ParseInputs ==
  {[text |-> t, expect |-> NoExpect] : t \in TextsUpTo(MaxTextLen)} \cup WrappedInputs

----------------------------------------------------------------------------
(* AdvisorView.handleSimulate: the caller that uses the wrapper bare.      *)

\* Lines 624-628 of the view: the continuation once the wrapper has settled.
SimSettle(w) ==
  /\ simFetch' = w
  /\ isSimulating' = ~FetchDone(w)
  /\ simulationResult' = IF w.pc = "returned" THEN w.data ELSE simulationResult

HandleSimulate ==
  /\ ~isSimulating
  /\ SimSettle(FetchStart(apiKey))
  /\ UNCHANGED <<apiKey, parseVars, appVars>>

SimRespond(out) ==
  /\ simFetch.pc = "calling"
  /\ SimSettle(FetchRespond(simFetch, out))
  /\ UNCHANGED <<apiKey, parseVars, appVars>>

SimWaitDone ==
  /\ simFetch.pc = "waiting"
  /\ SimSettle(FetchWaitDone(simFetch))
  /\ UNCHANGED <<apiKey, parseVars, appVars>>

\* The remote service answers every call of the run with the text respText.
SimRespondText == SimRespond(TextOutcome(respText))

SimRespondAny == \E out \in Outcomes : SimRespond(out)

----------------------------------------------------------------------------
(* The ledger: positions, the add / remove / reset handlers of App and the *)
(* price refresh.                                                          *)

MaxClock   == 2
MaxTimers  == 2
MaxRefresh == 1

SymbolInputs == {"A", "B"}
ShareInputs  == {1}
PriceInputs  == {10}

\* String.prototype.toUpperCase on the symbols of the model.
Upper(sym) == IF sym = "a" THEN "A" ELSE IF sym = "b" THEN "B" ELSE sym

RECURSIVE GCD(_, _)
GCD(a, b) == IF b = 0 THEN a ELSE GCD(b, a % b)

\* The number n / d (d >= 0) in lowest terms; 0/0 is NaN and 1/0 Infinity.
Rat(n, d) ==
  IF d = 0 THEN [n |-> IF n = 0 THEN 0 ELSE 1, d |-> 0]
  ELSE IF n = 0 THEN [n |-> 0, d |-> 1]
  ELSE LET g == GCD(n, d) IN [n |-> n \div g, d |-> d \div g]

\* ToNumber of an operand of * or +: a null read back from storage counts as 0.
ToNumber(v) == IF v = JNull THEN Rat(0, 1) ELSE v

\* The plain mean of the old average and the new price.
AvgAfterBuy_Unweighted(shares, avgBuyPrice, addShares, price) ==
  LET avg == ToNumber(avgBuyPrice)
  IN  Rat(avg.n * price.d + price.n * avg.d, 2 * avg.d * price.d)

\* (shares * avg + addShares * price) / (shares + addShares)
AvgAfterBuy(shares, avgBuyPrice, addShares, price) ==
  LET avg == ToNumber(avgBuyPrice)
  IN  Rat(shares * avg.n * price.d + addShares * price.n * avg.d,
          avg.d * price.d * (shares + addShares))

\* Date.now().toString() and new Date().toISOString() at clock value t.
Stamp(t) == ToString(t)

\* PortfolioView.handleAdd, lines 46-53: the position the add form submits.
FormStock(t, sym, sh, pr) ==
  [id |-> Stamp(t), symbol |-> Upper(sym), shares |-> sh, avgBuyPrice |-> Rat(pr, 1),
   currentPrice |-> pr, companyName |-> "", sector |-> "", transactions |-> <<>>]

\* Array.prototype.findIndex, 1-based; 0 when no element matches.
FindSymbol(seq, sym) ==
  IF \E i \in 1..Len(seq) : Upper(seq[i].symbol) = Upper(sym)
  THEN CHOOSE i \in 1..Len(seq) :
         /\ Upper(seq[i].symbol) = Upper(sym)
         /\ \A j \in 1..(i-1) : Upper(seq[j].symbol) # Upper(sym)
  ELSE 0

\* handleAddStock that never looks for the symbol: every add is a new position.
handleAddStock_AlwaysAppend(prev, stock, t) ==
  Append(prev, [stock EXCEPT !.transactions =
                  <<[id |-> Stamp(t), type |-> "BUY", shares |-> stock.shares,
                     price |-> stock.avgBuyPrice, date |-> t]>>])

\* App.handleAddStock, lines 203-241: the functional update of the portfolio.
handleAddStock(prev, stock, t) ==
  LET initialTransaction ==
        [id |-> Stamp(t), type |-> "BUY", shares |-> stock.shares,
         price |-> stock.avgBuyPrice, date |-> t]
      existingIndex == FindSymbol(prev, stock.symbol)
  IN  IF existingIndex > 0
      THEN LET existing == prev[existingIndex]
           IN  [prev EXCEPT ![existingIndex] =
                 [existing EXCEPT
                    !.shares = existing.shares + stock.shares,
                    !.avgBuyPrice = AvgAfterBuy(existing.shares, existing.avgBuyPrice,
                                                stock.shares, stock.avgBuyPrice),
                    !.transactions = <<initialTransaction>> \o existing.transactions]]
      ELSE Append(prev, [stock EXCEPT !.transactions = <<initialTransaction>>])

\* App.handleRemoveStock, line 291.
handleRemoveStock(prev, id) == SelectSeq(prev, LAMBDA pos : pos.id # id)

\* What the price query finds for the symbols: the "stocks" arrays.
StockUpdates ==
  { <<>>,
    <<[symbol |-> "B", currentPrice |-> 0, companyName |-> "", sector |-> "Sec"],
      [symbol |-> "a", currentPrice |-> 20, companyName |-> "Co", sector |-> ""]>> }

\* The text of a price response: an object whose member stands for "stocks".
StocksText == <<LB, QUOTE, "x", QUOTE, COLON, NUL, RB>>

RefreshOutcomes ==
  {MkResponse(StocksText, <<>>, u) : u \in StockUpdates}
  \cup {TextOutcome(<<"x">>),
        ErrOutcome(MkError("remote", 429, {})),
        ErrOutcome(MkError("remote", 500, {}))}

\* updateStockPrices, lines 132-143: the map over the captured portfolio.
ApplyUpdates(pf, updates) ==
  [i \in DOMAIN pf |->
     LET pos == pf[i]
         j   == FindSymbol(updates, pos.symbol)
     IN  IF j = 0 THEN pos
         ELSE [pos EXCEPT
                 !.currentPrice = IF updates[j].currentPrice # 0
                                  THEN updates[j].currentPrice ELSE @,
                 !.companyName  = IF updates[j].companyName # ""
                                  THEN updates[j].companyName ELSE @,
                 !.sector       = IF updates[j].sector # ""
                                  THEN updates[j].sector ELSE @]]

\* updateStockPrices, lines 128-148: what the await of line 150 resolves to
\* once the wrapper has settled as w.
UpdateResult(captured, w) ==
  IF w.pc = "returned" THEN ApplyUpdates(captured, w.response.stocks) ELSE captured

----------------------------------------------------------------------------
(* Local storage: App.tsx lines 19-79 (rehydration) and 28-37, 94-110       *)
(* (persistence effects). A stored text is modelled by the value it         *)
(* denotes, after the conversions JSON.stringify and toString apply.        *)

\* What localStorage.getItem returns: null for an absent key, else the text.
Absent     == [has |-> FALSE, text |-> <<>>]
Item(text) == [has |-> TRUE, text |-> text]

StorageKeys == {"portfolio", "liquidCash", "strategy", "analysisHistory", "theme"}

INITIAL_STRATEGY ==
  [goal |-> "Aggressive Growth", riskTolerance |-> "Medium", horizonYears |-> 5,
   notes |-> "Looking to beat inflation and save for a house down payment."]

\* { ...INITIAL_STRATEGY, notes: '' } of handleReset.
ClearedStrategy == [INITIAL_STRATEGY EXCEPT !.notes = ""]

\* selectedStock === null
NoStock == [id |-> "", shares |-> 0]

\* JSON.stringify of a number: NaN and the infinities are written as null.
JsonNumber(x) == IF x = JNull THEN JNull ELSE IF x.d = 0 THEN JNull ELSE x

StringifyTransaction(tx) == [tx EXCEPT !.price = JsonNumber(@)]

StringifyPosition(pos) ==
  [pos EXCEPT !.avgBuyPrice = JsonNumber(@),
              !.transactions = [i \in DOMAIN pos.transactions |->
                                  StringifyTransaction(pos.transactions[i])]]

\* JSON.stringify(portfolio), line 97.
StringifyPortfolio(pf) == [i \in DOMAIN pf |-> StringifyPosition(pf[i])]

\* liquidCash.toString(), line 109, and Number(saved), line 56.
MaxCash == 200
NumberOf(text) == CHOOSE n \in 0..MaxCash : ToString(n) = text

ThemeOf(dark) == IF dark THEN "dark" ELSE "light"

\* What the five effects write when all of them run (at mount).
StoredState(pf, cash, strat, hist, dark) ==
  [portfolio |-> Item(StringifyPortfolio(pf)), liquidCash |-> Item(ToString(cash)),
   strategy |-> Item(strat), analysisHistory |-> Item(hist), theme |-> Item(ThemeOf(dark))]

\* The effects of lines 29-37 and 95-110 after a commit: each writes its key
\* when the state it depends on has changed.
PersistEffects ==
  storage' =
    [portfolio       |-> IF portfolio' # portfolio
                         THEN Item(StringifyPortfolio(portfolio')) ELSE storage.portfolio,
     liquidCash      |-> IF liquidCash' # liquidCash
                         THEN Item(ToString(liquidCash')) ELSE storage.liquidCash,
     strategy        |-> IF strategy' # strategy THEN Item(strategy') ELSE storage.strategy,
     analysisHistory |-> IF analysisHistory' # analysisHistory
                         THEN Item(analysisHistory') ELSE storage.analysisHistory,
     theme           |-> IF darkMode' # darkMode
                         THEN Item(ThemeOf(darkMode')) ELSE storage.theme]

\* The state initialisers of lines 20-79 reading the storage st.
LoadPortfolio(st) == IF st.portfolio.has THEN st.portfolio.text ELSE <<>>
LoadLiquidCash(st) == IF st.liquidCash.has THEN NumberOf(st.liquidCash.text) ELSE 0
LoadStrategy(st) == IF st.strategy.has THEN st.strategy.text ELSE INITIAL_STRATEGY
LoadHistory(st) == IF st.analysisHistory.has THEN st.analysisHistory.text ELSE <<>>
LoadTheme(st) == st.theme.has /\ st.theme.text = "dark"

EmptyStorage == [k \in StorageKeys |-> Absent]

\* One in-flight handleRefreshPrices: the portfolio it read from the ref, its
\* wrapper, whether the portfolio has been empty since it started, and how
\* the last refresh of the slot ended.
IdleRefresh ==
  [active |-> FALSE, captured |-> <<>>, fetch |-> FetchIdle, cleared |-> FALSE,
   last |-> "none"]

FreeSlots == {k \in DOMAIN refreshes : ~refreshes[k].active}

RefreshEnd(w) == IF w.pc = "returned" THEN "ok" ELSE "failed"

\* RefreshSettle with setIsRefreshing(false) at the end of the try block
\* instead of the finally block: a failed refresh leaves the flag set.
RefreshSettle_NoFinally(k, w) ==
  IF FetchDone(w)
  THEN /\ portfolio' = IF Len(portfolio) = 0 THEN portfolio
                       ELSE UpdateResult(refreshes[k].captured, w)
       /\ isRefreshing' = IF w.pc = "returned" THEN FALSE ELSE isRefreshing
       /\ refreshes' = [refreshes EXCEPT ![k] = [IdleRefresh EXCEPT !.last = RefreshEnd(w)]]
  ELSE /\ refreshes' = [refreshes EXCEPT ![k].fetch = w]
       /\ UNCHANGED <<portfolio, isRefreshing>>

\* handleRefreshPrices lines 151-156, run for slot k whose wrapper settled as w.
\* portfolioRef.current is the portfolio: the effect of lines 95-98 runs with
\* every commit.
RefreshSettle(k, w) ==
  IF FetchDone(w)
  THEN /\ portfolio' = IF Len(portfolio) = 0 THEN portfolio
                       ELSE UpdateResult(refreshes[k].captured, w)
       /\ isRefreshing' = FALSE
       /\ refreshes' = [refreshes EXCEPT ![k] = [IdleRefresh EXCEPT !.last = RefreshEnd(w)]]
  ELSE /\ refreshes' = [refreshes EXCEPT ![k].fetch = w]
       /\ UNCHANGED <<portfolio, isRefreshing>>

\* handleRefreshPrices lines 144-150: up to the first await.
RefreshBegin ==
  IF Len(portfolio) = 0 THEN UNCHANGED <<portfolio, isRefreshing, refreshes>>
  ELSE /\ FreeSlots # {}
       /\ LET k == CHOOSE f \in FreeSlots : \A g \in FreeSlots : f <= g
              w == FetchStart(apiKey)
          IN  IF FetchDone(w)
              THEN /\ portfolio' = UpdateResult(portfolio, w)
                   /\ isRefreshing' = FALSE
                   /\ refreshes' = [refreshes EXCEPT ![k].last = RefreshEnd(w)]
              ELSE /\ refreshes' = [refreshes EXCEPT ![k] =
                         [active |-> TRUE, captured |-> portfolio, fetch |-> w,
                          cleared |-> FALSE, last |-> "none"]]
                   /\ isRefreshing' = TRUE
                   /\ UNCHANGED portfolio

\* The refresh button of PortfolioView (disabled while isRefreshing).
RefreshClick ==
  /\ ~isRefreshing
  /\ Len(portfolio) > 0
  /\ RefreshBegin
  /\ UNCHANGED <<apiKey, bookVars, prefVars, viewVars, simVars, parseVars, now, liquidCash, timers, analysisVars>>
  /\ PersistEffects

\* A timer set by handleAddStock (line 243) fires.
RefreshTimer ==
  /\ timers > 0
  /\ timers' = timers - 1
  /\ RefreshBegin
  /\ UNCHANGED <<apiKey, bookVars, prefVars, viewVars, simVars, parseVars, now, liquidCash, analysisVars>>
  /\ PersistEffects

RefreshRespond(k, out) ==
  /\ refreshes[k].active
  /\ refreshes[k].fetch.pc = "calling"
  /\ RefreshSettle(k, Lean(FetchRespond(refreshes[k].fetch, out)))
  /\ UNCHANGED <<apiKey, bookVars, prefVars, viewVars, simVars, parseVars, now, liquidCash, timers, analysisVars>>
  /\ PersistEffects

RefreshRespondAny == \E k \in DOMAIN refreshes, out \in RefreshOutcomes : RefreshRespond(k, out)

RefreshWaitDone(k) ==
  /\ refreshes[k].active
  /\ refreshes[k].fetch.pc = "waiting"
  /\ RefreshSettle(k, Lean(FetchWaitDone(refreshes[k].fetch)))
  /\ UNCHANGED <<apiKey, bookVars, prefVars, viewVars, simVars, parseVars, now, liquidCash, timers, analysisVars>>
  /\ PersistEffects

RefreshWaitDoneAny == \E k \in DOMAIN refreshes : RefreshWaitDone(k)

\* The in-flight refreshes see the portfolio pf: an empty one marks them.
MarkCleared(pf) ==
  [k \in DOMAIN refreshes |->
     IF refreshes[k].active /\ Len(pf) = 0
     THEN [refreshes[k] EXCEPT !.cleared = TRUE] ELSE refreshes[k]]

\* The add form is submitted: handleAdd, then App.handleAddStock.
AddStock(sym, sh, pr) ==
  /\ now < MaxClock
  /\ timers < MaxTimers
  /\ now' = now + 1
  /\ portfolio' = handleAddStock(portfolio, FormStock(now', sym, sh, pr), now')
  /\ timers' = timers + 1
  /\ UNCHANGED <<apiKey, bookVars, prefVars, viewVars, simVars, parseVars, liquidCash, isRefreshing, refreshes, analysisVars>>
  /\ PersistEffects

AddStockAny == \E sym \in SymbolInputs, sh \in ShareInputs, pr \in PriceInputs : AddStock(sym, sh, pr)

RemoveStock(i) ==
  /\ i \in 1..Len(portfolio)
  /\ portfolio' = handleRemoveStock(portfolio, portfolio[i].id)
  /\ refreshes' = MarkCleared(portfolio')
  /\ UNCHANGED <<apiKey, bookVars, prefVars, viewVars, simVars, parseVars, now, liquidCash, isRefreshing, timers, analysisVars>>
  /\ PersistEffects

RemoveStockAny == \E i \in 1..Len(portfolio) : RemoveStock(i)

----------------------------------------------------------------------------
(* Transactions: PortfolioView.handleAddTransactionSubmit and               *)
(* App.handleTransaction.                                                   *)

MaxTx   == 3
\* The liquid cash the journal is followed up to.
CashCap == 20

TxTypes       == {"BUY", "SELL"}
JournalShares == {1, 2}
JournalPrices == {10, 20}

Max(a, b) == IF a >= b THEN a ELSE b

\* Where the comparator of lines 270 and 135 puts tx in a list that is already
\* newest-first: behind every transaction that is not older (the sort is stable).
RECURSIVE InsertByDate(_, _)
InsertByDate(sorted, tx) ==
  IF sorted = <<>> THEN <<tx>>
  ELSE IF Head(sorted).date >= tx.date
       THEN <<Head(sorted)>> \o InsertByDate(Tail(sorted), tx)
       ELSE <<tx>> \o sorted

\* Array.prototype.sort((a, b) => new Date(b.date) - new Date(a.date)).
RECURSIVE SortNewestFirst(_)
SortNewestFirst(txs) ==
  IF txs = <<>> THEN <<>>
  ELSE InsertByDate(SortNewestFirst(SubSeq(txs, 1, Len(txs) - 1)), txs[Len(txs)])

\* The transaction handleAddTransactionSubmit builds, lines 166-172.
MkTransaction(t, type, sh, pr) ==
  [id |-> Stamp(t), type |-> type, shares |-> sh, price |-> Rat(pr, 1), date |-> t]

\* Lines 257-267: the share count after the transaction.
NewShares(stock, transaction) ==
  IF transaction.type = "BUY"
  THEN stock.shares + transaction.shares
  ELSE Max(0, stock.shares - transaction.shares)

\* Lines 258-267 without the reset of line 266.
NewAvgPrice_NoReset(stock, transaction) ==
  IF transaction.type = "BUY"
  THEN AvgAfterBuy(stock.shares, stock.avgBuyPrice, transaction.shares, transaction.price)
  ELSE stock.avgBuyPrice

\* Lines 258-267: the average cost after the transaction.
NewAvgPrice(stock, transaction) ==
  IF transaction.type = "BUY"
  THEN AvgAfterBuy(stock.shares, stock.avgBuyPrice, transaction.shares, transaction.price)
  ELSE IF NewShares(stock, transaction) = 0 THEN Rat(0, 1) ELSE stock.avgBuyPrice

\* handleTransaction without the sort of line 270.
handleTransaction_NoSort(prev, stockId, transaction) ==
  [i \in DOMAIN prev |->
     IF prev[i].id # stockId THEN prev[i]
     ELSE [prev[i] EXCEPT !.shares = NewShares(prev[i], transaction),
                          !.avgBuyPrice = NewAvgPrice(prev[i], transaction),
                          !.transactions = Append(@, transaction)]]

\* App.handleTransaction, lines 253-279: the functional update of the portfolio.
handleTransaction(prev, stockId, transaction) ==
  [i \in DOMAIN prev |->
     IF prev[i].id # stockId THEN prev[i]
     ELSE [prev[i] EXCEPT !.shares = NewShares(prev[i], transaction),
                          !.avgBuyPrice = NewAvgPrice(prev[i], transaction),
                          !.transactions = SortNewestFirst(Append(@, transaction))]]

\* transaction.shares * transaction.price, line 282.
Amount(transaction) == (transaction.shares * transaction.price.n) \div transaction.price.d

\* Lines 283-287 with the cash credited on a BUY.
AdjustCash_BuyCredits(cash, transaction) == cash + Amount(transaction)

\* App.handleTransaction, lines 281-287: the update of the liquid cash.
AdjustCash(cash, transaction) ==
  IF transaction.type = "BUY"
  THEN Max(0, cash - Amount(transaction))
  ELSE cash + Amount(transaction)

\* The ledger button of a row of PortfolioView (line 310) opens the modal.
OpenModal(i) ==
  /\ selectedStock = NoStock
  /\ selectedStock' = [id |-> portfolio[i].id, shares |-> portfolio[i].shares]
  /\ UNCHANGED <<apiKey, simVars, parseVars, now, liquidCash, ledgerVars, analysisVars,
                 sheet, replaced, prefVars, viewVars>>
  /\ PersistEffects

OpenModalAny == \E i \in 1..Len(portfolio) : OpenModal(i)

\* The transactions the modal's position holds now, if it is still there.
SelectedTransactions ==
  IF \E i \in 1..Len(portfolio) : portfolio[i].id = selectedStock.id
  THEN (CHOOSE pos \in {portfolio[i] : i \in 1..Len(portfolio)} :
          pos.id = selectedStock.id).transactions
  ELSE <<>>

\* The modal's form is submitted at clock value t: handleAddTransactionSubmit
\* (lines 154-177), then App.handleTransaction through onUpdateStock.
SubmitTransaction(t, type, sh, pr) ==
  /\ selectedStock # NoStock
  /\ t <= MaxClock
  /\ Len(SelectedTransactions) < MaxTx
  /\ ~(type = "SELL" /\ sh > selectedStock.shares)
  /\ now' = t
  /\ LET transaction == MkTransaction(t, type, sh, pr)
     IN  /\ AdjustCash(liquidCash, transaction) <= CashCap
         /\ portfolio' = handleTransaction(portfolio, selectedStock.id, transaction)
         /\ liquidCash' = AdjustCash(liquidCash, transaction)
  /\ selectedStock' = NoStock
  /\ UNCHANGED <<apiKey, simVars, parseVars, isRefreshing, refreshes, timers, analysisVars,
                 sheet, replaced, prefVars, viewVars>>
  /\ PersistEffects

SubmitTransactionAny ==
  \E t \in {now, now + 1}, type \in TxTypes, sh \in JournalShares, pr \in JournalPrices :
    SubmitTransaction(t, type, sh, pr)

\* The add form with the share counts and prices of the journal.
AddStockJournal ==
  \E sym \in {"A"}, sh \in JournalShares, pr \in JournalPrices : AddStock(sym, sh, pr)

----------------------------------------------------------------------------
(* Import: PortfolioView.handleFileUpload and App.handleImportStocks.       *)
(* A sheet is the array of rows sheet_to_json returns; a cell is a number,  *)
(* a string, a boolean or a hole (undefined).                               *)

MaxRows == 2

NumCell(n)  == [k |-> "num", n |-> n, s |-> ""]
StrCell(t)  == [k |-> "str", n |-> 0, s |-> t]
BoolCell(b) == [k |-> "bool", n |-> IF b THEN 1 ELSE 0, s |-> ""]
Hole        == [k |-> "none", n |-> 0, s |-> ""]

\* String.prototype.trim on the strings of the model.
TrimText(t) == IF t = " " THEN "" ELSE t

\* Number(cell), lines 94-95: NaN for a hole and for a text that is no number;
\* a blank string converts to 0 and a boolean to 0 or 1.
NumberOfCell(c) ==
  IF c.k = "num" \/ c.k = "bool" THEN [nan |-> FALSE, v |-> c.n]
  ELSE IF c.k = "str" /\ TrimText(c.s) = "" THEN [nan |-> FALSE, v |-> 0]
  ELSE [nan |-> TRUE, v |-> 0]

\* String(cell).toUpperCase().trim(), line 93.
SymbolOfCell(c) ==
  IF c.k = "str" THEN TrimText(Upper(c.s))
  ELSE IF c.k = "num" THEN ToString(c.n)
  ELSE IF c.k = "bool" THEN (IF c.n = 1 THEN "TRUE" ELSE "FALSE")
  ELSE "UNDEFINED"

\* Map.prototype.has / get on the insertion-ordered stockMap; 0 when absent.
MapIndex(stockMap, symbol) ==
  IF \E i \in 1..Len(stockMap) : stockMap[i].symbol = symbol
  THEN CHOOSE i \in 1..Len(stockMap) : stockMap[i].symbol = symbol
  ELSE 0

\* Date.now().toString() + Math.random().toString() for row i read at t.
RowStamp(t, i) == Stamp(t) \o "." \o ToString(i)

\* Lines 91-129 with the first cost kept as the average of a repeated symbol.
ImportRow_FirstCostKept(stockMap, row, i, t) ==
  IF Len(row) < 3 THEN stockMap
  ELSE LET symbol == SymbolOfCell(row[1])
           qty    == NumberOfCell(row[2])
           cost   == NumberOfCell(row[3])
           newTx  == [id |-> RowStamp(t, i), type |-> "BUY", shares |-> qty.v,
                      price |-> Rat(cost.v, 1), date |-> t]
           j      == MapIndex(stockMap, symbol)
       IN  IF i = 1 /\ (qty.nan \/ cost.nan) THEN stockMap
           ELSE IF symbol # "" /\ ~qty.nan /\ ~cost.nan /\ qty.v > 0
                THEN IF j > 0
                     THEN [stockMap EXCEPT ![j] =
                            [@ EXCEPT !.shares = @ + qty.v,
                                      !.transactions = Append(@, newTx)]]
                     ELSE Append(stockMap,
                            [id |-> RowStamp(t, i) \o "p", symbol |-> symbol,
                             shares |-> qty.v, avgBuyPrice |-> Rat(cost.v, 1),
                             currentPrice |-> cost.v, companyName |-> "", sector |-> "",
                             transactions |-> <<newTx>>])
                ELSE stockMap

\* handleFileUpload, lines 90-130: the body of the forEach for row i (the
\* first row is row 1) read at clock value t.
ImportRow(stockMap, row, i, t) ==
  IF Len(row) < 3 THEN stockMap
  ELSE LET symbol == SymbolOfCell(row[1])
           qty    == NumberOfCell(row[2])
           cost   == NumberOfCell(row[3])
           newTx  == [id |-> RowStamp(t, i), type |-> "BUY", shares |-> qty.v,
                      price |-> Rat(cost.v, 1), date |-> t]
           j      == MapIndex(stockMap, symbol)
       IN  IF i = 1 /\ (qty.nan \/ cost.nan) THEN stockMap
           ELSE IF symbol # "" /\ ~qty.nan /\ ~cost.nan /\ qty.v > 0
                THEN IF j > 0
                     THEN [stockMap EXCEPT ![j] =
                            [@ EXCEPT !.shares = @ + qty.v,
                                      !.avgBuyPrice =
                                         AvgAfterBuy(stockMap[j].shares, @, qty.v,
                                                     Rat(cost.v, 1)),
                                      !.transactions = Append(@, newTx)]]
                     ELSE Append(stockMap,
                            [id |-> RowStamp(t, i) \o "p", symbol |-> symbol,
                             shares |-> qty.v, avgBuyPrice |-> Rat(cost.v, 1),
                             currentPrice |-> cost.v, companyName |-> "", sector |-> "",
                             transactions |-> <<newTx>>])
                ELSE stockMap

\* The forEach of line 90 over the first n rows.
RECURSIVE ImportRows(_, _, _)
ImportRows(rows, n, t) ==
  IF n = 0 THEN <<>> ELSE ImportRow(ImportRows(rows, n - 1, t), rows[n], n, t)

\* handleFileUpload, lines 87-136: aggregatedStocks for the rows read at t.
AggregateRows(rows, t) ==
  LET stockMap == ImportRows(rows, Len(rows), t)
  IN  [j \in DOMAIN stockMap |->
         [stockMap[j] EXCEPT !.transactions = SortNewestFirst(@)]]

PositionIds(pf) == {pf[i].id : i \in 1..Len(pf)}

\* A file is chosen: handleFileUpload, then App.handleImportStocks (lines
\* 246-250) when at least one row was aggregated.
FileUpload(rows) ==
  /\ now < MaxClock
  /\ timers < MaxTimers
  /\ now' = now + 1
  /\ sheet' = rows
  /\ LET aggregatedStocks == AggregateRows(rows, now')
     IN  IF Len(aggregatedStocks) > 0
         THEN /\ portfolio' = aggregatedStocks
              /\ timers' = timers + 1
              /\ replaced' = replaced \cup PositionIds(portfolio)
         ELSE UNCHANGED <<portfolio, timers, replaced>>
  /\ UNCHANGED <<apiKey, simVars, parseVars, liquidCash, isRefreshing, refreshes,
                 analysisVars, selectedStock, prefVars, viewVars>>
  /\ PersistEffects

\* The cells and rows of the sheets that are uploaded.
SymbolCells == {StrCell("a"), StrCell("A"), StrCell(" ")}
QtyCells    == {NumCell(0), NumCell(1), NumCell(2), StrCell("x"), BoolCell(TRUE)}
CostCells   == {NumCell(10), NumCell(20), StrCell(" ")}

SheetRows ==
  {<<c1, c2, c3>> : c1 \in SymbolCells, c2 \in QtyCells, c3 \in CostCells}
  \cup {<<StrCell("a"), NumCell(1)>>}

Sheets == UNION {[1..n -> SheetRows] : n \in 0..MaxRows}

FileUploadAny == \E rows \in Sheets : FileUpload(rows)

\* The sheets uploaded into the journal: one symbol bought twice.
JournalSheets ==
  { <<<<StrCell("a"), NumCell(1), NumCell(10)>>, <<StrCell("A"), NumCell(2), NumCell(20)>>>> }

FileUploadJournal == \E rows \in JournalSheets : FileUpload(rows)

----------------------------------------------------------------------------
(* The analysis: App.handleRunAnalysis and generatePortfolioAnalysis.      *)
(* A history entry and a partial result are maps from keys to values.      *)

ID  == <<"id">>
TS  == <<"timestamp">>
SRC == <<"sources">>

JNum(n) == [t |-> "num", s |-> <<ToString(n)>>, m |-> EmptyMap]
JArr(q) == [t |-> "arr", s |-> q, m |-> EmptyMap]

CashInputs == {0, 100}

\* The responses of the two analysis prompts.
AnalysisOutcomes ==
  { MkResponse(<<LB, RB>>, <<>>, <<>>),
    MkResponse(<<LB, QUOTE, "x", QUOTE, COLON, NUL, RB>>, <<"u1">>, <<>>),
    MkResponse(<<FENCE, JSONW, LB, QUOTE, "x", QUOTE, COLON, QUOTE, "x", QUOTE, RB, FENCE>>,
               <<"u2", "u1">>, <<>>),
    MkResponse(<<LB, QUOTE, "id", QUOTE, COLON, QUOTE, "x", QUOTE, RB>>, <<>>, <<>>),
    TextOutcome(<<"x">>),
    ErrOutcome(MkError("remote", 429, {})),
    ErrOutcome(MkError("remote", 500, {})) }

\* { ...v }: the own enumerable properties of a parsed value.
Spread(v) ==
  IF v.t = "obj" THEN v.m
  ELSE IF v.t = "str"
       THEN [k \in {<<ToString(i - 1)>> : i \in DOMAIN v.s} |->
               JStr(<<v.s[CHOOSE i \in DOMAIN v.s : <<ToString(i - 1)>> = k]>>)]
       ELSE EmptyMap

\* Line 457: Array.from(new Map(...).values()) keeps one source per uri, in
\* the order of first occurrence.
RECURSIVE UniqueSources(_)
UniqueSources(q) ==
  IF q = <<>> THEN <<>>
  ELSE LET d == UniqueSources(SubSeq(q, 1, Len(q) - 1))
       IN  IF \E i \in DOMAIN d : d[i] = q[Len(q)] THEN d ELSE Append(d, q[Len(q)])

\* Lines 430-438.
extractSources(allSources, response) ==
  IF Len(response.chunks) > 0 THEN allSources \o response.chunks ELSE allSources

\* onUpdate that merges the partial result into every entry of the history.
onUpdate_EveryEntry(prev, newId, partialData) ==
  [i \in DOMAIN prev |-> MapMerge(prev[i], partialData)]

\* App lines 181-188: the onUpdate callback of the run with id newId.
onUpdate(prev, newId, partialData) ==
  [i \in DOMAIN prev |->
     IF ID \in DOMAIN prev[i] /\ prev[i][ID] = JStr(<<newId>>)
     THEN MapMerge(prev[i], partialData)
     ELSE prev[i]]

NoPhase == [state |-> "none", m |-> EmptyMap]

\* One call of generatePortfolioAnalysis.  events lists, in order, the
\* generate calls issued ("c1", "c2"), the phases that returned ("r1", "r2")
\* or failed ("f1", "f2") and the onUpdate calls ("u1", "u2"); d1 and d2 keep
\* the data each phase returned; entryPos locates the entry of the run,
\* counted from the end of the history, while entryLive.
IdleRun ==
  [pc |-> "idle", newId |-> "", currentResult |-> EmptyMap, allSources |-> <<>>,
   fetch |-> FetchIdle, events |-> <<>>, d1 |-> NoPhase, d2 |-> NoPhase,
   entryLive |-> FALSE, entryPos |-> 0]

\* The wrapper of a phase moved to w: log the generate calls it issued.
WithFetch(ar, w, tag) ==
  [ar EXCEPT !.fetch = w,
             !.events = IF w.calls > ar.fetch.calls THEN Append(@, tag) ELSE @]

\* Lines 452-463: phase 2 settles; the function returns.
EndPhase2(ar, w, hist) ==
  IF w.pc = "returned"
  THEN LET allSources == extractSources(ar.allSources, w.response)
           result == MapPut(MapMerge(ar.currentResult, Spread(w.data)),
                            SRC, JArr(UniqueSources(allSources)))
       IN  [ar |-> [ar EXCEPT !.pc = "idle", !.fetch = FetchIdle,
                              !.allSources = allSources, !.currentResult = result,
                              !.events = @ \o <<"r2", "u2">>,
                              !.d2 = [state |-> "ok", m |-> Spread(w.data)]],
            hist |-> onUpdate(hist, ar.newId, result)]
  ELSE [ar |-> [ar EXCEPT !.pc = "idle", !.fetch = FetchIdle,
                          !.events = Append(@, "f2"),
                          !.d2 = [state |-> "failed", m |-> EmptyMap]],
        hist |-> hist]

StepPhase2(ar, w, hist) ==
  IF FetchDone(w) THEN EndPhase2(WithFetch(ar, w, "c2"), w, hist)
  ELSE [ar |-> WithFetch(ar, w, "c2"), hist |-> hist]

\* EndPhase1 that keeps the phase-1 result for the end of the run instead of
\* reporting it.
EndPhase1_NoUpdate(ar, w, hist) ==
  IF w.pc = "returned"
  THEN LET allSources == extractSources(ar.allSources, w.response)
           result == MapPut(MapMerge(ar.currentResult, Spread(w.data)),
                            SRC, JArr(allSources))
       IN  [ar |-> [ar EXCEPT !.allSources = allSources, !.currentResult = result,
                              !.events = @ \o <<"r1">>,
                              !.d1 = [state |-> "ok", m |-> Spread(w.data)]],
            hist |-> hist]
  ELSE [ar |-> [ar EXCEPT !.events = Append(@, "f1"),
                          !.d1 = [state |-> "failed", m |-> EmptyMap]],
        hist |-> hist]

\* Lines 441-449: phase 1 settles.
EndPhase1(ar, w, hist) ==
  IF w.pc = "returned"
  THEN LET allSources == extractSources(ar.allSources, w.response)
           result == MapPut(MapMerge(ar.currentResult, Spread(w.data)),
                            SRC, JArr(allSources))
       IN  [ar |-> [ar EXCEPT !.allSources = allSources, !.currentResult = result,
                              !.events = @ \o <<"r1", "u1">>,
                              !.d1 = [state |-> "ok", m |-> Spread(w.data)]],
            hist |-> onUpdate(hist, ar.newId, result)]
  ELSE [ar |-> [ar EXCEPT !.events = Append(@, "f1"),
                          !.d1 = [state |-> "failed", m |-> EmptyMap]],
        hist |-> hist]

\* StepPhase1 whose catch block rethrows: a failed phase 1 ends the run.
StepPhase1_AbortOnFailure(ar, w, hist, key) ==
  IF FetchDone(w)
  THEN LET e == EndPhase1(WithFetch(ar, w, "c1"), w, hist)
       IN  IF w.pc = "raised"
           THEN [ar |-> [e.ar EXCEPT !.pc = "idle", !.fetch = FetchIdle], hist |-> e.hist]
           ELSE StepPhase2([e.ar EXCEPT !.pc = "phase2", !.fetch = FetchIdle],
                           FetchStart(key), e.hist)
  ELSE [ar |-> WithFetch(ar, w, "c1"), hist |-> hist]

\* Lines 441-453: once phase 1 has settled, phase 2 starts.
StepPhase1(ar, w, hist, key) ==
  IF FetchDone(w)
  THEN LET e == EndPhase1(WithFetch(ar, w, "c1"), w, hist)
       IN  StepPhase2([e.ar EXCEPT !.pc = "phase2", !.fetch = FetchIdle],
                      FetchStart(key), e.hist)
  ELSE [ar |-> WithFetch(ar, w, "c1"), hist |-> hist]

\* Lines 426-442: the call, up to its first await.
generatePortfolioAnalysis(newId, hist, key) ==
  StepPhase1([IdleRun EXCEPT !.pc = "phase1", !.newId = newId,
                             !.entryLive = TRUE, !.entryPos = Len(hist)],
             FetchStart(key), hist, key)

\* The continuation of handleRunAnalysis: lines 180-196.
AnalysisSettle(r) ==
  /\ analysisHistory' = r.hist
  /\ run' = r.ar
  /\ isAnalyzing' = (r.ar.pc # "idle")

\* RunAnalysisRejected that looks at the portfolio only: cash alone does not
\* make a request acceptable.
RunAnalysisRejected_PortfolioOnly ==
  /\ ~isAnalyzing
  /\ Len(portfolio) = 0
  /\ analysisError' = "Please add assets or update liquid cash first."
  /\ UNCHANGED <<apiKey, bookVars, prefVars, viewVars, simVars, parseVars, now, liquidCash, ledgerVars,
                 analysisHistory, viewingAnalysisId, isAnalyzing, run>>
  /\ PersistEffects

\* handleRunAnalysis lines 162-165: nothing to analyse.
RunAnalysisRejected ==
  /\ ~isAnalyzing
  /\ Len(portfolio) = 0 /\ liquidCash = 0
  /\ analysisError' = "Please add assets or update liquid cash first."
  /\ UNCHANGED <<apiKey, bookVars, prefVars, viewVars, simVars, parseVars, now, liquidCash, ledgerVars,
                 analysisHistory, viewingAnalysisId, isAnalyzing, run>>
  /\ PersistEffects

\* handleRunAnalysis lines 167-180 (the button is disabled while isAnalyzing).
RunAnalysis ==
  /\ ~isAnalyzing
  /\ ~(Len(portfolio) = 0 /\ liquidCash = 0)
  /\ now < MaxClock
  /\ now' = now + 1
  /\ LET newId == Stamp(now')
         newEntry == MapPut(MapPut(EmptyMap, ID, JStr(<<newId>>)), TS, JNum(now'))
     IN  /\ AnalysisSettle(generatePortfolioAnalysis(newId, <<newEntry>> \o analysisHistory,
                                                     apiKey))
         /\ viewingAnalysisId' = newId
  /\ analysisError' = ""
  /\ UNCHANGED <<apiKey, bookVars, prefVars, viewVars, simVars, parseVars, liquidCash, ledgerVars>>
  /\ PersistEffects

AnalysisStep(w) ==
  IF run.pc = "phase1" THEN StepPhase1(run, w, analysisHistory, apiKey)
  ELSE StepPhase2(run, w, analysisHistory)

AnalysisRespond(out) ==
  /\ run.pc \in {"phase1", "phase2"}
  /\ run.fetch.pc = "calling"
  /\ AnalysisSettle(AnalysisStep(Lean(FetchRespond(run.fetch, out))))
  /\ UNCHANGED <<apiKey, bookVars, prefVars, viewVars, simVars, parseVars, now, liquidCash, ledgerVars,
                 viewingAnalysisId, analysisError>>
  /\ PersistEffects

AnalysisRespondAny == \E out \in AnalysisOutcomes : AnalysisRespond(out)

AnalysisWaitDone ==
  /\ run.pc \in {"phase1", "phase2"}
  /\ run.fetch.pc = "waiting"
  /\ AnalysisSettle(AnalysisStep(Lean(FetchWaitDone(run.fetch))))
  /\ UNCHANGED <<apiKey, bookVars, prefVars, viewVars, simVars, parseVars, now, liquidCash, ledgerVars,
                 viewingAnalysisId, analysisError>>
  /\ PersistEffects

\* The liquid-cash input of PortfolioView (onUpdateLiquidCash).
SetLiquidCash(c) ==
  /\ liquidCash' = c
  /\ liquidCash # c
  /\ UNCHANGED <<apiKey, bookVars, prefVars, viewVars, simVars, parseVars, now, ledgerVars, analysisVars>>
  /\ PersistEffects

SetLiquidCashAny == \E c \in CashInputs : SetLiquidCash(c)

----------------------------------------------------------------------------
(* The report: pdfService.generatePDFReport.                               *)
(* An analysis is null or the set of the fields it holds; the AI data is  *)
(* merged into the entry as it comes, so any field can be missing.         *)

NullAnalysis == [null |-> TRUE, fields |-> {}]
Entry(fields) == [null |-> FALSE, fields |-> {"id", "timestamp"} \cup fields]

\* The fields of schema1 and schema2 (geminiService.ts lines 187-228 and
\* 288-424) that the report reads.
Phase1Fields == {"summary", "score", "manifestoAlignmentScore", "marketSentiment",
                 "actionableMoves"}
Phase2Fields == {"dividendForecast", "riskAssessment"}

\* generatePDFReport: "saved" when doc.save is reached, "raised" when a
\* property of an undefined or null value is read on the way.
generatePDFReport(pf, strat, an) ==
  IF \E i \in DOMAIN pf : pf[i].avgBuyPrice = JNull THEN "raised"       \* line 83
  ELSE IF an.null THEN "saved"                                           \* lines 195-200
  ELSE IF "marketSentiment" \notin an.fields THEN "raised"               \* line 123
  ELSE IF "actionableMoves" \notin an.fields THEN "raised"               \* line 151
  ELSE "saved"

\* App lines 89-92: the entry viewed, or the newest entry when none is
\* viewed; 0 when currentAnalysis is null.
CurrentIndex ==
  LET Viewed == {i \in DOMAIN analysisHistory :
                   /\ ID \in DOMAIN analysisHistory[i]
                   /\ analysisHistory[i][ID] = JStr(<<viewingAnalysisId>>)}
  IN  IF viewingAnalysisId # ""
      THEN IF Viewed = {} THEN 0 ELSE CHOOSE i \in Viewed : \A j \in Viewed : i <= j
      ELSE IF Len(analysisHistory) > 0 THEN 1 ELSE 0

\* App.handleDownloadReport (lines 199-201) while the current analysis has
\* the shape an: null exactly when there is no current entry, and the bare
\* placeholder while the current entry holds its id and timestamp only.
DownloadReport(an) ==
  /\ an.null = (CurrentIndex = 0)
  /\ (CurrentIndex # 0 /\ DOMAIN analysisHistory[CurrentIndex] = {ID, TS}) => an = Entry({})
  /\ analysis' = an
  /\ report' = generatePDFReport(portfolio, strategy, an)
  /\ UNCHANGED <<apiKey, bookVars, prefVars, simVars, parseVars, now, liquidCash, ledgerVars,
                 analysisVars, idealAllocation, rebalanceInflow, suggestions>>
  /\ PersistEffects

AnalysisShapes ==
  { NullAnalysis, Entry({}), Entry(Phase1Fields), Entry(Phase2Fields),
    Entry(Phase1Fields \cup Phase2Fields),
    Entry(Phase1Fields \ {"marketSentiment"}), Entry(Phase1Fields \ {"actionableMoves"}) }

DownloadReportAny == \E an \in AnalysisShapes : DownloadReport(an)

----------------------------------------------------------------------------
(* AdvisorView: the rebalancing projection (rebalancingData).              *)

NaN == Rat(0, 0)
Finite(x) == x.d # 0

\* The sums and products are reduced before they are multiplied out, which
\* keeps the intermediate integers small; the results are exact.
RatAdd(x, y) ==
  IF Finite(x) /\ Finite(y)
  THEN LET g == GCD(x.d, y.d)
       IN  Rat(x.n * (y.d \div g) + y.n * (x.d \div g), (x.d \div g) * y.d)
  ELSE NaN
RatSub(x, y) == RatAdd(x, [y EXCEPT !.n = 0 - @])
RatMul(x, y) ==
  IF Finite(x) /\ Finite(y)
  THEN LET g == GCD(x.n, y.d)
           h == GCD(y.n, x.d)
       IN  Rat((x.n \div g) * (y.n \div h), (x.d \div h) * (y.d \div g))
  ELSE NaN
\* x / y for y > 0, the only division the projection makes with a divisor it
\* has compared with 0.
RatDiv(x, y) ==
  IF Finite(x) /\ Finite(y) /\ y.n > 0 THEN RatMul(x, [n |-> y.d, d |-> y.n]) ELSE NaN
\* x > 0 and a >= b; every comparison with NaN is false.
Positive(x) == Finite(x) /\ x.n > 0
AtLeast(a, b) == Finite(a) /\ Finite(b) /\ a.n * b.d >= b.n * a.d

\* acc + s[1] + ... + s[n], as reduce computes it.
RECURSIVE SumOf(_)
SumOf(s) == IF s = <<>> THEN Rat(0, 1) ELSE RatAdd(SumOf(SubSeq(s, 1, Len(s) - 1)), s[Len(s)])

\* The deficit without the clamp at 0.
Deficit_Signed(targetValue, value) == RatSub(targetValue, value)

\* Math.max(0, targetValue - stock.value), line 653.
Deficit(targetValue, value) ==
  LET d == RatSub(targetValue, value)
  IN  IF ~Finite(d) THEN NaN ELSE IF d.n > 0 THEN d ELSE Rat(0, 1)

\* The analysis shown has no idealAllocation; the memo is null.
NoAllocation == [has |-> FALSE, list |-> <<>>]
NoData == [has |-> FALSE, list |-> <<>>]

\* useState(100000), line 551; the input replaces it by the text typed, of
\* which the model keeps what Number() makes of it.
InitialInflow == [typed |-> FALSE, nan |-> FALSE, n |-> 100000]
Typed(n) == [typed |-> TRUE, nan |-> FALSE, n |-> n]
Blank == [typed |-> TRUE, nan |-> TRUE, n |-> 0]

\* Line 636: Number(rebalanceInflow) || 0 for a text, the number itself else.
InflowOf(x) == IF x.typed /\ x.nan THEN Rat(0, 1) ELSE Rat(x.n, 1)

\* Lines 639-643: stock.currentPrice || stock.avgBuyPrice, and the value held.
PriceOf(stock) ==
  IF stock.currentPrice # 0 THEN Rat(stock.currentPrice, 1) ELSE ToNumber(stock.avgBuyPrice)
ValueOf(stock) == RatMul(PriceOf(stock), Rat(stock.shares, 1))

\* Line 650: idealAllocation.find(i => i.symbol === stock.symbol), and
\* line 651: its weight as a fraction, 0 when there is none.
IdealWeightOf(list, symbol) ==
  IF \E i \in DOMAIN list : list[i].symbol = symbol
  THEN Rat(list[CHOOSE i \in DOMAIN list :
                  /\ list[i].symbol = symbol
                  /\ \A j \in 1..(i-1) : list[j].symbol # symbol].idealWeight, 100)
  ELSE Rat(0, 1)

\* sort((a, b) => b.idealWeight - a.idealWeight), line 679: stable, largest
\* weight first.
RECURSIVE InsertByWeight(_, _)
InsertByWeight(sorted, p) ==
  IF sorted = <<>> THEN <<p>>
  ELSE IF AtLeast(Head(sorted).idealWeight, p.idealWeight)
       THEN <<Head(sorted)>> \o InsertByWeight(Tail(sorted), p)
       ELSE <<p>> \o sorted

RECURSIVE SortByWeight(_)
SortByWeight(s) ==
  IF s = <<>> THEN <<>>
  ELSE InsertByWeight(SortByWeight(SubSeq(s, 1, Len(s) - 1)), s[Len(s)])

\* The memo of lines 633-683.
rebalancingData(ideal, pf, inflowState) ==
  IF ~ideal.has THEN NoData
  ELSE
    LET inflow == InflowOf(inflowState)
        values == [i \in DOMAIN pf |-> ValueOf(pf[i])]
        totalCurrentValue == SumOf(values)
        newTotalValue == RatAdd(totalCurrentValue, inflow)
        deficits == [i \in DOMAIN pf |->
                       Deficit(RatMul(newTotalValue, IdealWeightOf(ideal.list, pf[i].symbol)),
                               values[i])]
        totalDeficit == SumOf(deficits)
        projected ==
          [i \in DOMAIN pf |->
             LET allocateAmount ==
                   IF Positive(totalDeficit)
                   THEN RatMul(inflow, RatDiv(deficits[i], totalDeficit))
                   ELSE Rat(0, 1)
                 price == PriceOf(pf[i])
             IN  [symbol |-> pf[i].symbol,
                  currentWeight |->
                    IF Positive(totalCurrentValue)
                    THEN RatMul(RatDiv(values[i], totalCurrentValue), Rat(100, 1))
                    ELSE Rat(0, 1),
                  idealWeight |-> RatMul(IdealWeightOf(ideal.list, pf[i].symbol), Rat(100, 1)),
                  deficit |-> deficits[i],
                  price |-> price,
                  allocateAmount |-> allocateAmount,
                  buyShares |->
                    IF Positive(price) /\ Finite(allocateAmount)
                    THEN RatDiv(allocateAmount, price).n \div RatDiv(allocateAmount, price).d
                    ELSE 0]]
    IN  [has |-> TRUE, list |-> SortByWeight(projected)]

\* AdvisorView renders with the ideal allocation of the analysis shown and
\* the inflow typed.
RenderAdvisor(ideal, inflowState) ==
  /\ idealAllocation' = ideal
  /\ rebalanceInflow' = inflowState
  /\ suggestions' = rebalancingData(ideal, portfolio, inflowState)
  /\ UNCHANGED <<apiKey, bookVars, prefVars, simVars, parseVars, now, liquidCash, ledgerVars,
                 analysisVars, analysis, report>>
  /\ PersistEffects

\* The ideal allocations of the analyses shown and the inflows typed.
IdealInputs ==
  { NoAllocation,
    [has |-> TRUE, list |-> <<>>],
    [has |-> TRUE, list |-> <<[symbol |-> "A", idealWeight |-> 60],
                              [symbol |-> "B", idealWeight |-> 40]>>],
    [has |-> TRUE, list |-> <<[symbol |-> "B", idealWeight |-> 100]>>],
    [has |-> TRUE, list |-> <<[symbol |-> "A", idealWeight |-> 0],
                              [symbol |-> "a", idealWeight |-> 100]>>],
    [has |-> TRUE, list |-> <<[symbol |-> "A", idealWeight |-> 30],
                              [symbol |-> "B", idealWeight |-> 30]>>] }

InflowInputs == {InitialInflow, Typed(100), Typed(0 - 100), Blank}

RenderAdvisorAny ==
  \E ideal \in IdealInputs, inflowState \in InflowInputs : RenderAdvisor(ideal, inflowState)

\* The add form with what is typed to build the holdings.
HoldingInputs == {<<"A", 1, 10>>, <<"A", 2, 20>>, <<"B", 1, 20>>, <<"B", 2, 10>>}

AddStockHoldings == \E typed \in HoldingInputs : AddStock(typed[1], typed[2], typed[3])
\* App.handleReset, lines 294-309, confirmed.
Reset ==
  /\ portfolio' = <<>>
  /\ liquidCash' = 0
  /\ analysisHistory' = <<>>
  /\ viewingAnalysisId' = ""
  /\ analysisError' = ""
  /\ refreshes' = MarkCleared(<<>>)
  /\ run' = [run EXCEPT !.entryLive = FALSE]
  /\ strategy' = ClearedStrategy
  /\ selectedStock' = NoStock
  /\ UNCHANGED <<apiKey, sheet, replaced, darkMode, viewVars, simVars, parseVars, now,
                 isRefreshing, timers, isAnalyzing>>
  /\ storage' = [storage EXCEPT !.portfolio = Item(<<>>), !.liquidCash = Item("0"),
                                !.strategy = Item(ClearedStrategy),
                                !.analysisHistory = Item(<<>>)]

\* The state of a fresh installation: nothing in local storage.  The model
\* follows up to slots refreshes at a time.
InitSlots(slots) ==
  /\ now = 0
  /\ portfolio = <<>>
  /\ liquidCash = 0
  /\ isRefreshing = FALSE
  /\ refreshes = [k \in 1..slots |-> IdleRefresh]
  /\ timers = 0
  /\ analysisHistory = <<>>
  /\ viewingAnalysisId = ""
  /\ isAnalyzing = FALSE
  /\ analysisError = ""
  /\ run = IdleRun
  /\ selectedStock = NoStock
  /\ sheet = <<>>
  /\ replaced = {}
  /\ darkMode = FALSE
  /\ strategy = INITIAL_STRATEGY
  /\ storage = StoredState(<<>>, 0, INITIAL_STRATEGY, <<>>, FALSE)
  /\ analysis = NullAnalysis
  /\ report = "none"
  /\ idealAllocation = NoAllocation
  /\ rebalanceInflow = InitialInflow
  /\ suggestions = NoData

InitApp == InitSlots(MaxRefresh)

InitIdle ==
  /\ simFetch = FetchIdle
  /\ isSimulating = FALSE
  /\ simulationResult = JNull
  /\ respText = <<>>
  /\ expect = NoExpect

InitLedger == apiKey \in BOOLEAN /\ InitIdle /\ InitApp

NextLedger ==
  \/ AddStockAny
  \/ RemoveStockAny
  \/ Reset
  \/ RefreshClick
  \/ RefreshTimer
  \/ RefreshRespondAny
  \/ RefreshWaitDoneAny

SpecLedger == InitLedger /\ [][NextLedger]_vars

NextAnalysis ==
  \/ RunAnalysisRejected
  \/ RunAnalysis
  \/ AnalysisRespondAny
  \/ AnalysisWaitDone
  \/ SetLiquidCashAny
  \/ Reset

SpecAnalysis == InitLedger /\ [][NextAnalysis]_vars

----------------------------------------------------------------------------
(* Preferences and the restart of the application.                         *)

\* The toggle of the header, line 39.
ToggleDarkMode ==
  /\ darkMode' = ~darkMode
  /\ UNCHANGED <<apiKey, simVars, parseVars, now, liquidCash, ledgerVars, analysisVars,
                 bookVars, strategy, viewVars>>
  /\ PersistEffects

\* The strategies StrategyView hands to setStrategy (line 346).
StrategyInputs ==
  { INITIAL_STRATEGY,
    [goal |-> "Dividend Income", riskTolerance |-> "Low", horizonYears |-> 10,
     notes |-> "income"] }

SetStrategy(strat) ==
  /\ strategy # strat
  /\ strategy' = strat
  /\ UNCHANGED <<apiKey, simVars, parseVars, now, liquidCash, ledgerVars, analysisVars,
                 bookVars, darkMode, viewVars>>
  /\ PersistEffects

SetStrategyAny == \E strat \in StrategyInputs : SetStrategy(strat)

\* The add form with a quantity of 0 or 1 (the form accepts "0").
AddStockZero == \E sh \in {0, 1} : AddStock("A", sh, 10)

\* The page is loaded again: the state initialisers of lines 20-87 read the
\* storage, every effect runs once (lines 29-37, 95-110) and the startup
\* refresh of lines 113-118 starts when the portfolio is not empty. What was
\* in flight is gone with the old page.
Restart ==
  /\ portfolio' = LoadPortfolio(storage)
  /\ liquidCash' = LoadLiquidCash(storage)
  /\ strategy' = LoadStrategy(storage)
  /\ analysisHistory' = LoadHistory(storage)
  /\ darkMode' = LoadTheme(storage)
  /\ viewingAnalysisId' = ""
  /\ isAnalyzing' = FALSE
  /\ analysisError' = ""
  /\ run' = IdleRun
  /\ selectedStock' = NoStock
  /\ simFetch' = FetchIdle
  /\ isSimulating' = FALSE
  /\ simulationResult' = JNull
  /\ timers' = 0
  /\ LET w == Lean(FetchStart(apiKey))
     IN  IF Len(portfolio') = 0 \/ FetchDone(w)
         THEN /\ isRefreshing' = FALSE
              /\ refreshes' = [k \in DOMAIN refreshes |-> IdleRefresh]
         ELSE /\ isRefreshing' = TRUE
              /\ refreshes' = [k \in DOMAIN refreshes |->
                                 IF k = 1
                                 THEN [active |-> TRUE, captured |-> portfolio', fetch |-> w,
                                       cleared |-> FALSE, last |-> "none"]
                                 ELSE IdleRefresh]
  /\ storage' = StoredState(portfolio', liquidCash', strategy', analysisHistory', darkMode')
  /\ analysis' = NullAnalysis
  /\ report' = "none"
  /\ idealAllocation' = NoAllocation
  /\ rebalanceInflow' = InitialInflow
  /\ suggestions' = NoData
  /\ UNCHANGED <<apiKey, parseVars, now, sheet, replaced>>

\* A sheet is uploaded into an empty journal.
FirstUpload == portfolio = <<>> /\ sheet = <<>> /\ FileUploadAny

InitImport == apiKey = TRUE /\ InitIdle /\ InitApp

NextImport == FirstUpload

SpecImport == InitImport /\ [][NextImport]_vars

\* The book: positions and their transactions, without price refreshes.
NextBook ==
  \/ AddStockJournal
  \/ OpenModalAny
  \/ SubmitTransactionAny
  \/ FileUploadJournal
  \/ RemoveStockAny
  \/ Reset

SpecBook == InitImport /\ [][NextBook]_vars

\* The journal: one symbol traded a share at a time, imports, and price
\* refreshes started from the refresh button.
AddStockOne == AddStock("A", 1, 10)

SubmitTransactionOne ==
  \E t \in {now, now + 1}, type \in TxTypes : SubmitTransaction(t, type, 1, 10)

JournalOutcomes ==
  { MkResponse(StocksText, <<>>,
               <<[symbol |-> "a", currentPrice |-> 20, companyName |-> "Co", sector |-> ""]>>),
    ErrOutcome(MkError("remote", 500, {})) }

RefreshRespondJournal ==
  \E k \in DOMAIN refreshes, out \in JournalOutcomes : RefreshRespond(k, out)

NextJournal ==
  \/ AddStockOne
  \/ OpenModalAny
  \/ SubmitTransactionOne
  \/ FileUploadJournal
  \/ RemoveStockAny
  \/ RefreshClick
  \/ RefreshRespondJournal

SpecJournal == InitImport /\ [][NextJournal]_vars

\* Persistence: every kind of persisted state is changed and the page is
\* loaded again.
NextPersist ==
  \/ AddStockZero
  \/ RemoveStockAny
  \/ SetLiquidCashAny
  \/ SetStrategyAny
  \/ ToggleDarkMode
  \/ RunAnalysis
  \/ AnalysisRespondAny
  \/ AnalysisWaitDone
  \/ RefreshRespondJournal
  \/ Reset
  \/ Restart

SpecPersist == InitImport /\ [][NextPersist]_vars

\* Overlapping refreshes: the button, the timers of add-stock and import and
\* the startup refresh, with up to MaxOverlap requests outstanding.
MaxOverlap == 2

InitOverlap == apiKey = TRUE /\ InitIdle /\ InitSlots(MaxOverlap)

NextOverlap ==
  \/ AddStockOne
  \/ FileUploadJournal
  \/ RefreshClick
  \/ RefreshTimer
  \/ RefreshRespondJournal
  \/ Restart

SpecOverlap == InitOverlap /\ [][NextOverlap]_vars

\* The symbols of the journal: adds typed in either case, imports, removals
\* and price refreshes from the button and from the timers.
AddStockCased == \E sym \in {"a", "A", "b"} : AddStock(sym, 1, 10)

NextSymbols ==
  \/ AddStockCased
  \/ FileUploadJournal
  \/ RemoveStockAny
  \/ RefreshClick
  \/ RefreshTimer
  \/ RefreshRespondJournal

SpecSymbols == InitImport /\ [][NextSymbols]_vars

\* Imports of an empty file and of files of one row into a journal that may
\* hold a position.
FileUploadShort == \E rows \in {<<>>} \cup {<<row>> : row \in SheetRows} : FileUpload(rows)

NextReimport ==
  \/ AddStockOne
  \/ FileUploadShort

SpecReimport == InitImport /\ [][NextReimport]_vars

\* The report, asked for with every shape of the current analysis.
ReportOutcomes ==
  { MkResponse(<<LB, QUOTE, "x", QUOTE, COLON, NUL, RB>>, <<"u1">>, <<>>),
    ErrOutcome(MkError("remote", 500, {})) }

AnalysisRespondReport == \E out \in ReportOutcomes : AnalysisRespond(out)

NextReport ==
  \/ SetLiquidCashAny
  \/ RunAnalysis
  \/ AnalysisRespondReport
  \/ DownloadReportAny

SpecReport == InitImport /\ [][NextReport]_vars

\* The rebalancing projection over the holdings the add form builds.
NextRebalance ==
  \/ AddStockHoldings
  \/ RenderAdvisorAny

SpecRebalance == InitImport /\ [][NextRebalance]_vars

----------------------------------------------------------------------------
\* Refreshes and analysis runs under fair scheduling: every remote call
\* settles and every backoff timer fires (the event loop runs each settled
\* promise's continuation and each expired timer).
LiveOutcomes ==
  { MkResponse(StocksText, <<>>, <<>>),
    TextOutcome(<<"x">>),
    ErrOutcome(MkError("remote", 429, {})) }

RefreshRespondLive(k) == \E out \in LiveOutcomes : RefreshRespond(k, out)

AnalysisRespondLive == \E out \in LiveOutcomes : AnalysisRespond(out)

\* The first holding is typed into the add form.
AddStockFirst == Len(portfolio) = 0 /\ AddStockOne

InitLive == InitLedger

NextLive ==
  \/ AddStockFirst
  \/ RefreshClick
  \/ RefreshTimer
  \/ \E k \in 1..MaxRefresh : RefreshRespondLive(k)
  \/ \E k \in 1..MaxRefresh : RefreshWaitDone(k)
  \/ RunAnalysis
  \/ AnalysisRespondLive
  \/ AnalysisWaitDone

FairLive ==
  /\ \A k \in 1..MaxRefresh :
       WF_vars(RefreshRespondLive(k)) /\ WF_vars(RefreshWaitDone(k))
  /\ WF_vars(AnalysisRespondLive)
  /\ WF_vars(AnalysisWaitDone)

SpecLive == InitLive /\ [][NextLive]_vars /\ FairLive

----------------------------------------------------------------------------

InitFetch ==
  /\ apiKey \in BOOLEAN
  /\ simFetch = FetchIdle
  /\ isSimulating = FALSE
  /\ simulationResult = JNull
  /\ respText = <<>>
  /\ expect = NoExpect
  /\ InitApp

NextFetch == HandleSimulate \/ SimRespondAny \/ SimWaitDone

SpecFetch == InitFetch /\ [][NextFetch]_vars

\* A simulation run in flight whose calls are all answered with one text.
InitParse ==
  /\ apiKey = TRUE
  /\ simFetch = FetchStart(TRUE)
  /\ isSimulating = TRUE
  /\ simulationResult = JNull
  /\ \E i \in ParseInputs : respText = i.text /\ expect = i.expect
  /\ InitApp

NextParse == SimRespondText

SpecParse == InitParse /\ [][NextParse]_vars


----------------------------------------------------------------------------
(* Properties of the wrapper, read off the bare invocation simFetch.       *)

Last(q) == q[Len(q)]

\* The attempt that ended with outcome out failed.
AttemptFailed(out) == out.kind = "error" \/ ~JsonParse(CleanText(out.text)).ok

\* The outcome carries a rate-limit or quota signal.
RateSignal(out) ==
  /\ out.kind = "error"
  /\ \/ out.err.status = 429
     \/ out.err.marks \cap {"429", "quota", "RESOURCE_EXHAUSTED"} # {}

\* C1: with credentials present an invocation of the wrapper issues at most 3
\* generate calls, one shared counter counts the failed attempts of every
\* cause, it returns at the first successful attempt without a further call,
\* and it raises only after the third attempt has failed.
C1_AtMostThreeAttempts ==
  apiKey =>
    LET w == simFetch
        n == Len(w.log)
    IN  /\ w.calls <= 3
        /\ w.calls = n + (IF w.pc = "calling" THEN 1 ELSE 0)
        /\ w.attempts = Cardinality({k \in 1..n : AttemptFailed(w.log[k])})
        /\ w.pc = "returned" =>
             /\ n >= 1
             /\ ~AttemptFailed(w.log[n])
             /\ \A k \in 1..(n-1) : AttemptFailed(w.log[k])
        /\ w.pc = "raised" =>
             /\ n = 3
             /\ \A k \in 1..3 : AttemptFailed(w.log[k])

\* C1 witness: the wrapper raised after three failures of three different
\* causes (a parse failure, a rate limit and another remote error).
C1_Witness ==
  /\ apiKey
  /\ simFetch.pc = "raised"
  /\ simFetch.calls = 3
  /\ \E i, j, k \in 1..3 :
       /\ simFetch.log[i].kind = "text"
       /\ RateSignal(simFetch.log[j])
       /\ simFetch.log[k].kind = "error" /\ ~RateSignal(simFetch.log[k])

\* C4: a backoff wait occurs exactly after a failed attempt k < 3 that carries
\* a rate-limit signal, and lasts k x 3000 ms; any other failure is followed
\* by no wait, and no wait follows the third failure.
C4_BackoffExactlyOnRateLimit ==
  LET w == simFetch
      n == Len(w.log)
      RateIdx == SelectSeq([k \in 1..n |-> k], LAMBDA k : RateSignal(w.log[k]) /\ k < 3)
  IN  /\ w.waits = [i \in 1..Len(RateIdx) |-> 3000 * RateIdx[i]]
      /\ w.pc = "waiting" => n < 3 /\ RateSignal(w.log[n])
      /\ (n >= 1 /\ n < 3 /\ AttemptFailed(w.log[n]) /\ ~RateSignal(w.log[n]))
           => w.pc = "calling"
      /\ (n = 3 /\ AttemptFailed(w.log[n])) => w.pc = "raised"

\* C4 witness: two rate-limited attempts were followed by waits of 3 s and
\* 6 s, and the third attempt failed without a wait.
C4_Witness ==
  /\ simFetch.waits = <<3000, 6000>>
  /\ Len(simFetch.log) = 3
  /\ simFetch.pc = "raised"

\* C9: without an API key the wrapper raises at once: no generate call is
\* issued, nothing is retried and no backoff wait is slept.
C9_NoKeyFailsImmediately ==
  ~apiKey =>
    /\ simFetch.pc \in {"idle", "raised"}
    /\ simFetch.calls = 0
    /\ simFetch.attempts = 0
    /\ simFetch.waits = <<>>
    /\ simFetch.log = <<>>
    /\ simFetch.pc = "raised" => simFetch.error = ApiKeyError
    /\ ~isSimulating

\* C9 witness: a run without a key has raised the missing-key error.
C9_Witness == ~apiKey /\ simFetch.pc = "raised" /\ simFetch.error = ApiKeyError

\* The claim's reading of a response that yields no JSON object.
YieldsNoObject(txt) ==
  \/ txt = <<>>
  \/ ~(\E i \in 1..Len(txt) : txt[i] = LB)
  \/ ~(\E i \in 1..Len(txt) : txt[i] = RB)
  \/ ~JsonParse(CleanText(txt)).ok

\* C3 as stated: a response that yields no JSON object (an empty response and
\* a text without braces included) is never the one the wrapper returns on.
C3_Original ==
  simFetch.pc = "returned" => ~YieldsNoObject(Last(simFetch.log).text)

\* C3 amended: when the cleaned text of a response (fence markers removed,
\* trimmed, cut from the first to the last brace; "{}" for an empty response)
\* fails JSON.parse, the attempt is a transient failure: nothing is returned
\* for it, the call is re-issued at once while attempts remain, and the parse
\* error is raised only when the third attempt fails.
C3_ParseFailureIsTransient ==
  LET w == simFetch
      n == Len(w.log)
  IN  (n >= 1 /\ w.log[n].kind = "text" /\ ~JsonParse(CleanText(w.log[n].text)).ok) =>
        /\ w.pc # "returned"
        /\ w.attempts = n
        /\ n < 3 => (w.pc = "calling" /\ w.calls = n + 1)
        /\ n >= 3 => (w.pc = "raised" /\ w.error = InvalidJson /\ w.calls = 3)
        /\ simulationResult = JNull

\* C3 witness: three responses without a brace, the parse error raised.
C3_Witness ==
  /\ simFetch.pc = "raised"
  /\ simFetch.error = InvalidJson
  /\ Len(simFetch.log) = 3
  /\ respText # <<>>
  /\ ~(\E i \in 1..Len(respText) : respText[i] \in {LB, RB})

\* C10 as stated: a response of the wrapped shape is returned on its attempt
\* with the parsed value of its object.
C10_Original ==
  (expect.wrapped /\ simFetch.log # <<>>) =>
    /\ simFetch.pc = "returned"
    /\ Len(simFetch.log) = 1
    /\ simFetch.data = expect.val

\* C10 amended: a response of the wrapped shape is returned on its attempt,
\* without a retry; the value returned is the parsed value of its object
\* whenever no code-fence marker occurs inside the object.
C10_WrappedObjectParsed ==
  (expect.wrapped /\ simFetch.log # <<>>) =>
    /\ simFetch.pc = "returned"
    /\ Len(simFetch.log) = 1
    /\ simFetch.calls = 1
    /\ simFetch.attempts = 0
    /\ ~expect.fenced => (simFetch.data = expect.val /\ simulationResult = expect.val)

\* C10 witness: prose, a json fence, an object of two members, a closing
\* fence and trailing prose, returned with the object's value.
C10_Witness ==
  /\ expect.wrapped /\ ~expect.fenced
  /\ Len(respText) >= 18
  /\ respText[1] = "x"
  /\ \E i \in 1..Len(respText) : respText[i] = FENCE
  /\ Cardinality(DOMAIN expect.val.m) = 2
  /\ simFetch.pc = "returned"
  /\ simFetch.data = expect.val


----------------------------------------------------------------------------
(* Properties of the price refresh.                                        *)

\* The refresh of slot k completes in this step.
RefreshCompleted(k) == refreshes[k].active /\ ~refreshes'[k].active

\* C2: a refresh that completes after the portfolio was cleared during its
\* flight is discarded: its completion leaves the portfolio as it is, whatever
\* happened between the clearing and the response.
C2_ClearedRefreshDiscarded ==
  [][\A k \in 1..MaxRefresh :
       (RefreshCompleted(k) /\ refreshes[k].cleared) => portfolio' = portfolio]_vars

\* C8: a refresh whose AI call raised leaves the portfolio as it was just
\* before the refresh completed.
C8_FailedRefreshPreserves ==
  [][\A k \in 1..MaxRefresh :
       (RefreshCompleted(k) /\ refreshes'[k].last = "failed") => portfolio' = portfolio]_vars

----------------------------------------------------------------------------
(* Properties of the analysis run.                                         *)

Count(q, tag) == Cardinality({i \in DOMAIN q : q[i] = tag})

Before(q, a, b) == \A i, j \in DOMAIN q : (q[i] = a /\ q[j] = b) => i < j

\* The history entry that the current run prepended.
RunEntry == analysisHistory[Len(analysisHistory) - run.entryPos + 1]

Holds(entry, m) == \A k \in DOMAIN m : k \in DOMAIN entry /\ entry[k] = m[k]

\* C5: the phases run one after the other: every generate call of phase 2 is
\* issued after phase 1 has returned or has failed, a failed phase 1 has
\* used up its three attempts, and phase 2 is attempted after either outcome
\* of phase 1.
C5_PhasesSequential ==
  LET ev == run.events
  IN  /\ \A i \in DOMAIN ev : ev[i] = "c2" => \E j \in 1..(i-1) : ev[j] \in {"r1", "f1"}
      /\ \A i \in DOMAIN ev : ev[i] = "c1" => \A j \in 1..(i-1) : ev[j] \notin {"r1", "f1"}
      /\ (apiKey /\ Count(ev, "f1") = 1) => Count(ev, "c1") = 3
      /\ run.pc = "phase1" => Count(ev, "r1") + Count(ev, "f1") = 0
      /\ run.pc = "phase2" =>
           /\ Count(ev, "r1") + Count(ev, "f1") = 1
           /\ Count(ev, "c2") >= 1
      /\ (run.pc = "idle" /\ run.newId # "") =>
           /\ Count(ev, "r1") + Count(ev, "f1") = 1
           /\ Count(ev, "r2") + Count(ev, "f2") = 1
           /\ apiKey => Count(ev, "c2") >= 1
      /\ isAnalyzing = (run.pc # "idle")

\* C5 witness: phase 1 failed after three calls and phase 2 then succeeded.
C5_Witness ==
  /\ run.pc = "idle"
  /\ Count(run.events, "c1") = 3
  /\ Count(run.events, "f1") = 1
  /\ Count(run.events, "r2") = 1

\* C6: once the run has finished, its history entry holds the fields of every
\* phase that succeeded, those of phase 2 winning where both have a key.
C6_EntryHoldsSucceededPhases ==
  (run.pc = "idle" /\ run.entryLive) => Holds(RunEntry, MapMerge(run.d1.m, run.d2.m))

\* C7: onUpdate is called once for each phase that succeeded, right after the
\* phase returned, and never for a phase that failed; the phase-1 update
\* precedes every generate call of phase 2 and the phase-2 update, and the
\* entry of the run holds the phase-1 data while phase 2 is in flight.
C7_UpdatesIncremental ==
  LET ev == run.events
  IN  /\ Count(ev, "u1") = Count(ev, "r1") /\ Count(ev, "r1") <= 1
      /\ Count(ev, "u2") = Count(ev, "r2") /\ Count(ev, "r2") <= 1
      /\ \A i \in DOMAIN ev : ev[i] = "u1" => (i > 1 /\ ev[i-1] = "r1")
      /\ \A i \in DOMAIN ev : ev[i] = "u2" => (i > 1 /\ ev[i-1] = "r2")
      /\ Count(ev, "f1") = 1 => Count(ev, "u1") = 0
      /\ Count(ev, "f2") = 1 => Count(ev, "u2") = 0
      /\ Before(ev, "u1", "c2")
      /\ Before(ev, "u1", "u2")
      /\ (run.pc = "phase2" /\ run.entryLive /\ run.d1.state = "ok")
           => Holds(RunEntry, run.d1.m)

\* C7 witness: phase 1 has reported a non-empty result to the entry of the
\* run and phase 2 is waiting for its first response.
C7_Witness ==
  /\ run.pc = "phase2"
  /\ run.entryLive
  /\ run.fetch.pc = "calling" /\ run.fetch.attempts = 0
  /\ run.events[Len(run.events)] = "c2"
  /\ Count(run.events, "u1") = 1
  /\ DOMAIN run.d1.m # {}
  /\ Holds(RunEntry, run.d1.m)

----------------------------------------------------------------------------
(* Properties of the positions and their transactions.                     *)

Positions == {portfolio[i] : i \in 1..Len(portfolio)}

RECURSIVE SharesOf(_, _)
\* The shares of the transactions of the given type in a list.
SharesOf(txs, type) ==
  IF txs = <<>> THEN 0
  ELSE (IF Head(txs).type = type THEN Head(txs).shares ELSE 0) + SharesOf(Tail(txs), type)

RECURSIVE CostOf(_)
\* The sum of shares x price over a list of transactions (integral prices).
CostOf(txs) ==
  IF txs = <<>> THEN 0
  ELSE Head(txs).shares * Head(txs).price.n + CostOf(Tail(txs))

\* The position was built by buys of positive share counts only.
OnlyBuys(pos) ==
  \A i \in 1..Len(pos.transactions) :
    /\ pos.transactions[i].type = "BUY"
    /\ pos.transactions[i].shares > 0
    /\ pos.transactions[i].price.d = 1

\* C11: a position built by buys of positive share counts only (the first
\* add, merged adds, BUY transactions) holds the sum of the bought shares, and
\* its average cost times its shares equals the sum of shares x price of those
\* buys.
C11_AverageIsWeightedMean ==
  \A pos \in Positions :
    OnlyBuys(pos) =>
      /\ pos.shares = SharesOf(pos.transactions, "BUY")
      /\ pos.avgBuyPrice.d > 0
      /\ pos.avgBuyPrice.n * pos.shares = CostOf(pos.transactions) * pos.avgBuyPrice.d

\* C11 witness: a position built by three buys or more at differing prices
\* whose average cost is no whole number.
C11_Witness ==
  \E pos \in Positions :
    /\ OnlyBuys(pos)
    /\ Len(pos.transactions) >= 3
    /\ \E i, j \in 1..Len(pos.transactions) :
         pos.transactions[i].price # pos.transactions[j].price
    /\ pos.avgBuyPrice.d > 1

\* The modal's form is submitted with a transaction of the given type.
Submitted(type, sh, pr) == \E t \in {now, now + 1} : SubmitTransaction(t, type, sh, pr)

\* C12: a SELL leaves the position with max(0, shares - sold) shares, never
\* fewer than zero; its average cost becomes 0 when no share is left and is
\* unchanged when shares are left.
C12_SellNeverBelowZero ==
  [][\A sh \in JournalShares, pr \in JournalPrices :
       Submitted("SELL", sh, pr) =>
         \A i \in 1..Len(portfolio) :
           portfolio[i].id = selectedStock.id =>
             /\ portfolio'[i].shares >= 0
             /\ portfolio'[i].shares =
                  (IF portfolio[i].shares >= sh THEN portfolio[i].shares - sh ELSE 0)
             /\ portfolio'[i].shares = 0 => portfolio'[i].avgBuyPrice = Rat(0, 1)
             /\ portfolio'[i].shares > 0 =>
                  portfolio'[i].avgBuyPrice = portfolio[i].avgBuyPrice]_vars

\* C12 witness: a position sold down to no shares with its average cost
\* reset, by sells of more shares than its buys brought in (the last sell was
\* cut off at zero).
C12_Witness ==
  \E pos \in Positions :
    /\ pos.shares = 0
    /\ pos.avgBuyPrice = Rat(0, 1)
    /\ SharesOf(pos.transactions, "SELL") > SharesOf(pos.transactions, "BUY")

\* C16: a submitted transaction moves the liquid cash by shares x price: a
\* BUY takes the amount off, stopping at zero, and a SELL adds it.
C16_CashFollowsTransactions ==
  [][\A type \in TxTypes, sh \in JournalShares, pr \in JournalPrices :
       Submitted(type, sh, pr) =>
         liquidCash' = (IF type = "SELL" THEN liquidCash + sh * pr
                        ELSE IF liquidCash >= sh * pr THEN liquidCash - sh * pr
                        ELSE 0)]_vars

\* C16 witness: the cash a SELL of 20 brought in, less a later BUY of 10.
C16_Witness ==
  /\ liquidCash = 10
  /\ \E pos \in Positions :
       \E i, j \in 1..Len(pos.transactions) :
         /\ i < j
         /\ pos.transactions[i].type = "BUY" /\ CostOf(<<pos.transactions[i]>>) = 10
         /\ pos.transactions[j].type = "SELL" /\ CostOf(<<pos.transactions[j]>>) = 20
         /\ pos.transactions[i].date > pos.transactions[j].date

\* The step is made by the add-stock handler or by the transaction handler.
AddStockStep ==
  \E sym \in SymbolInputs, sh \in ShareInputs \cup JournalShares,
     pr \in PriceInputs \cup JournalPrices : AddStock(sym, sh, pr)

TransactionStep ==
  \E type \in TxTypes, sh \in JournalShares, pr \in JournalPrices : Submitted(type, sh, pr)

\* The positions that are in the portfolio before and after the step, as
\* pairs of their indices.
Kept == {ij \in (1..Len(portfolio)) \X (1..Len(portfolio')) :
           portfolio[ij[1]].id = portfolio'[ij[2]].id}

\* C13: a step of any operation other than the add-stock and transaction
\* handlers, the completion of a price refresh among them, leaves the shares,
\* the average cost and the transactions of every position it keeps as they
\* were, and changes at most currentPrice, companyName and sector.
C13_OnlyHandlersMutate ==
  [][(~AddStockStep /\ ~TransactionStep) =>
       \A ij \in Kept :
         LET before == portfolio[ij[1]]
             after  == portfolio'[ij[2]]
         IN  /\ after.shares = before.shares
             /\ after.avgBuyPrice = before.avgBuyPrice
             /\ after.transactions = before.transactions
             /\ after.symbol = before.symbol]_vars

\* C14: a transaction recorded in a position stays in it, unmodified, for as
\* long as the position exists.
C14_TransactionsAppendOnly ==
  [][\A ij \in Kept :
       \A n \in 1..Len(portfolio[ij[1]].transactions) :
         \E m \in 1..Len(portfolio'[ij[2]].transactions) :
           portfolio'[ij[2]].transactions[m] = portfolio[ij[1]].transactions[n]]_vars

NewestFirst(txs) == \A n \in 1..(Len(txs) - 1) : txs[n].date >= txs[n + 1].date

\* C15: the transactions of every position are sorted newest-first.
C15_TransactionsNewestFirst == \A pos \in Positions : NewestFirst(pos.transactions)

\* C15 witness: a refreshed position with three transactions, two of the same
\* date and one older, among them a SELL submitted through the modal.
C15_Witness ==
  \E pos \in Positions :
    /\ pos.currentPrice = 20
    /\ Len(pos.transactions) = 3
    /\ pos.transactions[1].date = pos.transactions[2].date
    /\ pos.transactions[2].date > pos.transactions[3].date
    /\ \E n \in 1..3 : pos.transactions[n].type = "SELL"

\* C19: no position that an import has replaced is in the portfolio again
\* (a position re-added by the user gets an id of its own).
C19_ImportReplacesForGood == \A pos \in Positions : pos.id \notin replaced

----------------------------------------------------------------------------
(* Properties of the import.                                               *)

\* What a portfolio holds apart from ids and dates.
Shape(pf) ==
  [i \in DOMAIN pf |->
     [symbol |-> pf[i].symbol, shares |-> pf[i].shares, avgBuyPrice |-> pf[i].avgBuyPrice,
      transactions |-> [n \in DOMAIN pf[i].transactions |->
                          [type   |-> pf[i].transactions[n].type,
                           shares |-> pf[i].transactions[n].shares,
                           price  |-> pf[i].transactions[n].price]]]]

\* The row has a quantity and a cost that are numbers, and a quantity above 0.
CountingRow(row) ==
  /\ Len(row) >= 3
  /\ row[2].k = "num"
  /\ row[3].k = "num"
  /\ row[2].n > 0

\* C17: the rows whose quantity or cost is no number, or whose quantity is not
\* above 0, contribute nothing: the import of a sheet yields what the import
\* of its other rows alone yields.
C17_InvalidRowsExcluded ==
  Shape(portfolio) = Shape(AggregateRows(SelectSeq(sheet, CountingRow), now))

\* The row is one the aggregation takes: it names a symbol, its quantity and
\* its cost convert to numbers, and its quantity is above 0.
ValidRow(row) ==
  /\ Len(row) >= 3
  /\ SymbolOfCell(row[1]) # ""
  /\ ~NumberOfCell(row[2]).nan
  /\ ~NumberOfCell(row[3]).nan
  /\ NumberOfCell(row[2]).v > 0

RECURSIVE QtySum(_)
QtySum(rows) ==
  IF rows = <<>> THEN 0 ELSE NumberOfCell(Head(rows)[2]).v + QtySum(Tail(rows))

RECURSIVE QtyCostSum(_)
QtyCostSum(rows) ==
  IF rows = <<>> THEN 0
  ELSE NumberOfCell(Head(rows)[2]).v * NumberOfCell(Head(rows)[3]).v + QtyCostSum(Tail(rows))

\* The valid rows of the uploaded sheet that name the symbol.
RowsFor(symbol) ==
  SelectSeq(sheet, LAMBDA row : ValidRow(row) /\ SymbolOfCell(row[1]) = symbol)

----------------------------------------------------------------------------
(* Properties of the local persistence.                                    *)

\* C20: local storage holds the serialisation of the portfolio, the liquid
\* cash, the strategy, the analysis history and the theme, a restart reads
\* exactly those values back from it, and an absent key reads as its default.
C20_StorageRehydratesState ==
  /\ storage = StoredState(portfolio, liquidCash, strategy, analysisHistory, darkMode)
  /\ LoadPortfolio(storage) = portfolio
  /\ LoadLiquidCash(storage) = liquidCash
  /\ LoadStrategy(storage) = strategy
  /\ LoadHistory(storage) = analysisHistory
  /\ LoadTheme(storage) = darkMode
  /\ LoadPortfolio(EmptyStorage) = <<>>
  /\ LoadLiquidCash(EmptyStorage) = 0
  /\ LoadStrategy(EmptyStorage) = INITIAL_STRATEGY
  /\ LoadHistory(EmptyStorage) = <<>>
  /\ LoadTheme(EmptyStorage) = FALSE

----------------------------------------------------------------------------
(* Properties of the delivery of partial results.                          *)

\* A step in which generatePortfolioAnalysis resumes: a response arrives or
\* a backoff wait ends; the onUpdate calls of the run happen in these steps.
Delivery == AnalysisRespondAny \/ AnalysisWaitDone

\* The entry carries the id generated for the current run.
CarriesRunId(entry) == ID \in DOMAIN entry /\ entry[ID] = JStr(<<run.newId>>)

\* C21: delivering partial results changes only the history entry carrying
\* the id of the run: the history keeps its length, every other entry keeps
\* its content and its place, and when no entry carries the id (after a reset
\* during the run the history is empty) the history is left as it is.
C21_UpdatesOnlyRunEntry ==
  [][Delivery =>
       /\ Len(analysisHistory') = Len(analysisHistory)
       /\ \A i \in DOMAIN analysisHistory :
            ~CarriesRunId(analysisHistory[i]) => analysisHistory'[i] = analysisHistory[i]
       /\ (\A i \in DOMAIN analysisHistory : ~CarriesRunId(analysisHistory[i]))
            => analysisHistory' = analysisHistory]_vars

\* C21 witness: the second run has merged a non-empty phase-1 result into its
\* own entry while the entry of the first run is still in the history.
C21_Witness ==
  /\ Len(analysisHistory) = 2
  /\ Count(run.events, "u1") = 1
  /\ DOMAIN run.d1.m # {}
  /\ CarriesRunId(analysisHistory[1])
  /\ Holds(analysisHistory[1], run.d1.m)
  /\ ~CarriesRunId(analysisHistory[2])

----------------------------------------------------------------------------
(* Properties of the start and the end of an analysis run.                 *)

\* The analysis button is pressed.
RunAnalysisRequested == RunAnalysisRejected \/ RunAnalysis

\* A step that ends the run: handleRunAnalysis reaches its finally block.
RunEnds == (RunAnalysis \/ Delivery) /\ run'.pc = "idle"

\* C23: a run that got data from neither phase reports the failure: its
\* placeholder entry is removed from the history, the viewed-analysis id is
\* reset to null and the error message is set.
C23_FailedRunReported ==
  [][(RunEnds /\ run'.d1.state = "failed" /\ run'.d2.state = "failed") =>
       /\ \A i \in DOMAIN analysisHistory' :
            ~(ID \in DOMAIN analysisHistory'[i]
              /\ analysisHistory'[i][ID] = JStr(<<run'.newId>>))
       /\ viewingAnalysisId' = ""
       /\ analysisError' = "Analysis unavailable. Try again later."]_vars

----------------------------------------------------------------------------
(* Properties of the busy flag of the price refresh.                       *)

\* A price-refresh request is outstanding.
Outstanding == {k \in DOMAIN refreshes : refreshes[k].active}

\* C24: isRefreshing is true whenever at least one price-refresh request is
\* outstanding, overlapping refreshes included.
C24_RefreshingWhileOutstanding == Outstanding # {} => isRefreshing

----------------------------------------------------------------------------
(* Properties of the share counts and of the symbols of the journal.       *)

\* C25: the share count of every position equals the shares of its BUY
\* transactions minus the shares of its SELL transactions.
C25_SharesMatchTransactions ==
  \A pos \in Positions :
    pos.shares = SharesOf(pos.transactions, "BUY") - SharesOf(pos.transactions, "SELL")

\* C26: no two positions of the portfolio have the same symbol, compared
\* without regard to case.
C26_SymbolsUnique ==
  \A i, j \in DOMAIN portfolio :
    Upper(portfolio[i].symbol) = Upper(portfolio[j].symbol) => i = j

\* C26 witness: an import made one position of the rows a and A, and the
\* same symbol typed into the add form was merged into that position.
C26_Witness ==
  /\ sheet # <<>>
  /\ Len(portfolio) = 1
  /\ portfolio[1].symbol = "A"
  /\ portfolio[1].shares = 4
  /\ Len(portfolio[1].transactions) = 3

----------------------------------------------------------------------------
(* Properties of an import that yields nothing.                            *)

\* C29: the upload of a file none of whose rows has a numeric quantity above
\* 0 and a numeric cost (an empty file included) leaves the portfolio as it
\* was and schedules no price refresh.
C29_EmptyImportKeepsPortfolio ==
  [][(FileUpload(sheet') /\ \A i \in DOMAIN sheet' : ~CountingRow(sheet'[i]))
       => (portfolio' = portfolio /\ timers' = timers)]_vars

\* The same for the files from which the aggregation takes no row.
EmptyImportKeepsPortfolio_Taken ==
  [][(FileUpload(sheet') /\ \A i \in DOMAIN sheet' : ~ValidRow(sheet'[i]))
       => (portfolio' = portfolio /\ timers' = timers)]_vars

----------------------------------------------------------------------------
(* Properties of the rebalancing projection.                               *)

\* The allocations of a list of suggestions, in order.
Allocations(list) == [i \in DOMAIN list |-> list[i].allocateAmount]

\* The target value of the position: ideal weight x (current total + inflow).
TargetOf(pf, ideal, inflow, pos) ==
  RatMul(IdealWeightOf(ideal.list, pos.symbol),
         RatAdd(SumOf([i \in DOMAIN pf |-> ValueOf(pf[i])]), inflow))

\* The projection data computed for the portfolio pf, the ideal allocation
\* ideal and a non-negative inflow is proportional to the deficits.
Proportional(pf, ideal, inflow, data) ==
  LET list == data.list
      totalDeficit == SumOf([i \in DOMAIN list |-> list[i].deficit])
      Held(i) == CHOOSE pos \in {pf[j] : j \in DOMAIN pf} : pos.symbol = list[i].symbol
  IN  /\ Len(list) = Len(pf)
      /\ \A j \in DOMAIN pf : \E i \in DOMAIN list : list[i].symbol = pf[j].symbol
      /\ Positive(totalDeficit) =>
           /\ \A i \in DOMAIN list :
                /\ list[i].allocateAmount = RatMul(RatDiv(inflow, totalDeficit), list[i].deficit)
                /\ AtLeast(list[i].allocateAmount, Rat(0, 1))
                /\ AtLeast(ValueOf(Held(i)), TargetOf(pf, ideal, inflow, Held(i)))
                     => list[i].allocateAmount = Rat(0, 1)
           /\ SumOf(Allocations(list)) = inflow
      /\ totalDeficit = Rat(0, 1) =>
           \A i \in DOMAIN list : list[i].allocateAmount = Rat(0, 1)

\* C22: whenever the projection is computed with a non-negative inflow, each
\* allocation is inflow x deficit / totalDeficit when the total deficit is
\* positive: the allocations are not negative, add up to the inflow, and are 0
\* for every stock whose value is at least its target; they are all 0 when
\* the total deficit is 0.
C22_AllocationProportional ==
  [][(RenderAdvisor(idealAllocation', rebalanceInflow')
        /\ suggestions'.has /\ AtLeast(InflowOf(rebalanceInflow'), Rat(0, 1)))
       => Proportional(portfolio, idealAllocation', InflowOf(rebalanceInflow'), suggestions')]_vars

\* C22 witness: with an inflow of 100 the projection gives everything to one
\* of two stocks and nothing to the other, which already exceeds its target.
C22_Witness ==
  /\ suggestions.has
  /\ rebalanceInflow = Typed(100)
  /\ Len(suggestions.list) = 2
  /\ Len(portfolio) = 2
  /\ \E i, j \in DOMAIN suggestions.list :
       /\ suggestions.list[i].allocateAmount = Rat(100, 1)
       /\ suggestions.list[j].allocateAmount = Rat(0, 1)
       /\ suggestions.list[j].deficit = Rat(0, 1)
       /\ Positive(suggestions.list[j].price)

----------------------------------------------------------------------------
(* Properties of the report.                                               *)

\* The shapes the current analysis takes: null, the placeholder of a run,
\* the result of phase 1 alone, of phase 2 alone, and of both.
ClaimedShapes ==
  {NullAnalysis, Entry({}), Entry(Phase1Fields), Entry(Phase2Fields),
   Entry(Phase1Fields \cup Phase2Fields)}

\* C27: the report is produced without an exception whichever of these
\* shapes the current analysis has.
C27_ReportNeverRaises == analysis \in ClaimedShapes => report # "raised"

----------------------------------------------------------------------------
\* C28: every started price refresh and every started analysis run
\* eventually completes, and the busy flags isRefreshing and isAnalyzing
\* eventually become false, whatever the remote calls answer, as long as
\* each call settles and each backoff wait ends.
C28_RunsComplete ==
  /\ \A k \in 1..MaxRefresh : refreshes[k].active ~> ~refreshes[k].active
  /\ isRefreshing ~> ~isRefreshing
  /\ run.pc # "idle" ~> run.pc = "idle"
  /\ isAnalyzing ~> ~isAnalyzing

\* A refresh that went to the remote service has failed and an analysis run
\* has finished; both flags are down.
C28_Witness ==
  /\ apiKey
  /\ \E k \in DOMAIN refreshes : refreshes[k].last = "failed"
  /\ Len(analysisHistory) > 0
  /\ run.pc = "idle"
  /\ ~isRefreshing /\ ~isAnalyzing

====
